---- MODULE Spec2Model ----
(***************************************************************************)
(* QuackMesh: ESPNowClient (link adapter), QuackMeshDevice (end device)    *)
(* and QuackMeshRouter (forwarding device), modelled as a state machine.   *)
(*                                                                         *)
(* Every node owns one record of fields; the operators below are the C++   *)
(* member functions, taking the node's fields as a record s and returning  *)
(* the fields after the call.  Times are in milliseconds.  A timestamp     *)
(* field mXxxTs of the source is kept as the difference millis() - mXxxTs  *)
(* (the only way the code reads it).                                       *)
(***************************************************************************)
EXTENDS Integers, Sequences, FiniteSets, TLC

VARIABLES
  active,                       \* the nodes that are running in this behaviour
  RECEIVED_DATA,                \* ESPNowClient::RECEIVED_DATA (std::queue)
  NEW_RECEIVED_DATA,            \* ESPNowClient::NEW_RECEIVED_DATA (ISR slot)
  NEW_DATA_RECEIVED_MUTEX,
  WAITING_FOR_DATA_SENT_MUTEX,
  DATA_SENT_UPDATE_MUTEX,
  LAST_SENT_STATUS,
  mNextDataToSend,              \* std::optional<SendingData>
  sinceLastMessageSent,         \* millis() - mLastMessageSentTs, capped
  mMessageQueue,
  mMessagesLeftToConfirm,
  mSeenMessages,
  sinceSeenMessagesCleanup,     \* millis() - mSeenMessagesCleanupUpdateTs
  sinceLastTimeoutCheck,        \* millis() - mLastTimeoutCheckTs
  mMessageSendingInProgress,
  idid,
  mRoutingTable,
  sinceLastRoutingTableUpdate,  \* millis() - mLastRoutingTableUpdateTs
  driverBusy,                   \* the driver owes a send status for an attempt
  air,                          \* frames on their way to the node's receive ISR
  statusLog,                    \* calls of mSentStatusCallback
  msgLog,                       \* calls of mOnMessageCallback
  fwdLog,                       \* (type, received hop, enqueued hop) of forwardMessage
  ackLog,                       \* acknowledgements built by sendAcknowledgement
  dupLog,                       \* frames handleOwnMessage dropped as already seen
  rxCount                       \* frames the environment has injected

nodeVars == <<RECEIVED_DATA, NEW_RECEIVED_DATA, NEW_DATA_RECEIVED_MUTEX,
              WAITING_FOR_DATA_SENT_MUTEX, DATA_SENT_UPDATE_MUTEX,
              LAST_SENT_STATUS, mNextDataToSend, sinceLastMessageSent,
              mMessageQueue, mMessagesLeftToConfirm, mSeenMessages,
              sinceSeenMessagesCleanup, sinceLastTimeoutCheck,
              mMessageSendingInProgress, idid, mRoutingTable,
              sinceLastRoutingTableUpdate, driverBusy, statusLog, msgLog,
              fwdLog, ackLog, dupLog>>

vars == <<active, nodeVars, air, rxCount>>

(***************************************************************************)
(* Addresses, nodes and program constants                                  *)
(***************************************************************************)
BROADCAST_ADDRESS == "FF:FF:FF:FF:FF:FF"

Nodes == {"A", "R", "S", "B"}

\* the instances of QuackMeshRouter; the others are plain QuackMeshDevice
Routers == {"R", "S"}

None == [none |-> TRUE]

mMaxSeenMessagesQueueSize == 10
mSeenMessagesCleanupInterval == 1000
mSeenMessagesCleanupTimeout == 2000
ConfirmationTimeout == 1000
mMessageSendInterval == 100
mRoutingTableUpdateInterval == 100
mRoutingTableUpdateTimeout == 10000
mMaxRoutingEntries == 10
HeaderSize == 18
InitialHopCount == 3
MaxSendTries == 2
MaxPayload == 232
ESP_NOW_MAX_DATA_LEN == 250

\* the values explored for a byte that is read from behind an object
OverflowBytes == {0, 255}

(***************************************************************************)
(* Bounds of the model                                                     *)
(***************************************************************************)
MaxSends == 1        \* calls of sendMessage / sendConfirmedMessage per node
MaxRecv == 2         \* frames the environment injects
MaxSeen == 12        \* different frames a node receives in a run
MaxBacklog == 17     \* frames received by a node that has one send of its own
MaxIsr == 3          \* frames received in a run with interrupts inside update()
MaxOrdered == 3      \* confirmed sends of one source whose order is observed
MaxAcked == 2

MaxForwarded == 2

MaxSilent == 2

MaxLoop == 1

MaxRestart == 2

MaxBurst == 3

MaxRoutes == 11      \* routing entries up to which addOrUpdateRoutingInfo is called
RouteVariety == 2    \* routing entries up to which every route is tried

(***************************************************************************)
(* Fixed-width arithmetic                                                  *)
(***************************************************************************)
Uint8(x) == x % 256

Int16(x) == ((x + 32768) % 65536) - 32768

\* u_long (32 bit unsigned) values are kept exactly while they are small.  A
\* value that has wrapped below zero is 2^32 - k for a small k: it is non-zero
\* and stays so for 2^32 ms of further subtraction, far beyond any behaviour
\* explored here, so all such values are represented by WrappedU32.
WrappedU32 == -1

U32Sub(t, d) == IF t = WrappedU32 THEN WrappedU32
                ELSE IF t - d < 0 THEN WrappedU32 ELSE t - d

Min(a, b) == IF a < b THEN a ELSE b

Take(seq, k) == SubSeq(seq, 1, Min(k, Len(seq)))

(***************************************************************************)
(* The fields of node n as one record, and writing a record back           *)
(***************************************************************************)
St(n) ==
  [self |-> n,
   RECEIVED_DATA |-> RECEIVED_DATA[n],
   NEW_RECEIVED_DATA |-> NEW_RECEIVED_DATA[n],
   NEW_DATA_RECEIVED_MUTEX |-> NEW_DATA_RECEIVED_MUTEX[n],
   WAITING_FOR_DATA_SENT_MUTEX |-> WAITING_FOR_DATA_SENT_MUTEX[n],
   DATA_SENT_UPDATE_MUTEX |-> DATA_SENT_UPDATE_MUTEX[n],
   LAST_SENT_STATUS |-> LAST_SENT_STATUS[n],
   mNextDataToSend |-> mNextDataToSend[n],
   sinceLastMessageSent |-> sinceLastMessageSent[n],
   mMessageQueue |-> mMessageQueue[n],
   mMessagesLeftToConfirm |-> mMessagesLeftToConfirm[n],
   mSeenMessages |-> mSeenMessages[n],
   sinceSeenMessagesCleanup |-> sinceSeenMessagesCleanup[n],
   sinceLastTimeoutCheck |-> sinceLastTimeoutCheck[n],
   mMessageSendingInProgress |-> mMessageSendingInProgress[n],
   idid |-> idid[n],
   mRoutingTable |-> mRoutingTable[n],
   sinceLastRoutingTableUpdate |-> sinceLastRoutingTableUpdate[n],
   driverBusy |-> driverBusy[n],
   statusLog |-> statusLog[n],
   msgLog |-> msgLog[n],
   fwdLog |-> fwdLog[n],
   ackLog |-> ackLog[n],
   dupLog |-> dupLog[n]]

Commit(n, s) ==
  /\ RECEIVED_DATA' = [RECEIVED_DATA EXCEPT ![n] = s.RECEIVED_DATA]
  /\ NEW_RECEIVED_DATA' = [NEW_RECEIVED_DATA EXCEPT ![n] = s.NEW_RECEIVED_DATA]
  /\ NEW_DATA_RECEIVED_MUTEX' =
       [NEW_DATA_RECEIVED_MUTEX EXCEPT ![n] = s.NEW_DATA_RECEIVED_MUTEX]
  /\ WAITING_FOR_DATA_SENT_MUTEX' =
       [WAITING_FOR_DATA_SENT_MUTEX EXCEPT ![n] = s.WAITING_FOR_DATA_SENT_MUTEX]
  /\ DATA_SENT_UPDATE_MUTEX' =
       [DATA_SENT_UPDATE_MUTEX EXCEPT ![n] = s.DATA_SENT_UPDATE_MUTEX]
  /\ LAST_SENT_STATUS' = [LAST_SENT_STATUS EXCEPT ![n] = s.LAST_SENT_STATUS]
  /\ mNextDataToSend' = [mNextDataToSend EXCEPT ![n] = s.mNextDataToSend]
  /\ sinceLastMessageSent' =
       [sinceLastMessageSent EXCEPT ![n] = s.sinceLastMessageSent]
  /\ mMessageQueue' = [mMessageQueue EXCEPT ![n] = s.mMessageQueue]
  /\ mMessagesLeftToConfirm' =
       [mMessagesLeftToConfirm EXCEPT ![n] = s.mMessagesLeftToConfirm]
  /\ mSeenMessages' = [mSeenMessages EXCEPT ![n] = s.mSeenMessages]
  /\ sinceSeenMessagesCleanup' =
       [sinceSeenMessagesCleanup EXCEPT ![n] = s.sinceSeenMessagesCleanup]
  /\ sinceLastTimeoutCheck' =
       [sinceLastTimeoutCheck EXCEPT ![n] = s.sinceLastTimeoutCheck]
  /\ mMessageSendingInProgress' =
       [mMessageSendingInProgress EXCEPT ![n] = s.mMessageSendingInProgress]
  /\ idid' = [idid EXCEPT ![n] = s.idid]
  /\ mRoutingTable' = [mRoutingTable EXCEPT ![n] = s.mRoutingTable]
  /\ sinceLastRoutingTableUpdate' =
       [sinceLastRoutingTableUpdate EXCEPT ![n] = s.sinceLastRoutingTableUpdate]
  /\ driverBusy' = [driverBusy EXCEPT ![n] = s.driverBusy]
  /\ statusLog' = [statusLog EXCEPT ![n] = s.statusLog]
  /\ msgLog' = [msgLog EXCEPT ![n] = s.msgLog]
  /\ fwdLog' = [fwdLog EXCEPT ![n] = s.fwdLog]
  /\ ackLog' = [ackLog EXCEPT ![n] = s.ackLog]
  /\ dupLog' = [dupLog EXCEPT ![n] = s.dupLog]

(***************************************************************************)
(* QuackMeshTypes                                                          *)
(***************************************************************************)
\* Message::Message(...): the fields are uint8_t, the payload is the first
\* len bytes of the caller's buffer
Message(networkID, type, id, hopCount, srcAddress, destAddress, len, data) ==
  [networkID |-> networkID, type |-> Uint8(type), id |-> Uint8(id),
   hopCount |-> Uint8(hopCount), srcAddress |-> srcAddress,
   destAddress |-> destAddress, len |-> Uint8(len),
   data |-> Take(data, Uint8(len))]

isAddressMatching(actualAddress, expectedAddress) ==
  actualAddress = expectedAddress

\* the EnqueuedMessageType under which a frame type is kept in the seen-set
SeenType(type) ==
  IF type = 0 THEN "Unconfirmed"
  ELSE IF type = 1 THEN "Confirmed"
  ELSE IF type = 3 THEN "Acknowledgement"
  ELSE "Forwarded"

(***************************************************************************)
(* Application callbacks (recorded)                                        *)
(***************************************************************************)
\* the ages of callback calls are kept exactly up to the lifetime of a
\* seen-set entry plus one cleanup interval; LogHorizon stands for any age
\* beyond that
LogHorizon == mSeenMessagesCleanupTimeout + mSeenMessagesCleanupInterval + 1

\* the age of the latest earlier call for the same (type, id, source), or
\* LogHorizon when there is none
LastGap(log, type, message) ==
  LET same == {i \in 1..Len(log) :
                 /\ log[i].type = type
                 /\ log[i].id = message.id
                 /\ log[i].srcAddress = message.srcAddress}
  IN IF same = {} THEN LogHorizon
     ELSE log[CHOOSE i \in same : \A j \in same : j <= i].age

mOnMessageCallback(s, type, message) ==
  [s EXCEPT !.msgLog =
     Append(@, [type |-> type, srcAddress |-> message.srcAddress,
                data |-> Take(message.data, message.len),
                len |-> message.len, id |-> message.id, age |-> 0,
                gap |-> LastGap(s.msgLog, type, message)])]

mSentStatusCallback(s, id, destAddress, status) ==
  [s EXCEPT !.statusLog =
     Append(@, [id |-> id, destAddress |-> destAddress, status |-> status])]

(***************************************************************************)
(* QuackMeshDevice: seen-set                                               *)
(***************************************************************************)
isMessageAlreadySeen(s, message) ==
  \E i \in 1..Len(s.mSeenMessages) :
     LET it == s.mSeenMessages[i]
     IN /\ it.timestamp # 0          \* u_long: timestamp > 0
        /\ it.id = message.id
        /\ isAddressMatching(it.srcAddress, message.srcAddress)
        /\ isAddressMatching(it.destAddress, message.destAddress)
        /\ it.type = SeenType(message.type)

rememberMessage_evictsNewest(s, message) ==
  IF isMessageAlreadySeen(s, message) THEN s
  ELSE LET newSeenMessage ==
             [id |-> message.id, srcAddress |-> message.srcAddress,
              destAddress |-> message.destAddress,
              timestamp |-> mSeenMessagesCleanupTimeout,
              type |-> SeenType(message.type)]
           kept == IF Len(s.mSeenMessages) >= mMaxSeenMessagesQueueSize
                   THEN SubSeq(s.mSeenMessages, 1, Len(s.mSeenMessages) - 1)
                   ELSE s.mSeenMessages
       IN [s EXCEPT !.mSeenMessages = Append(kept, newSeenMessage)]

rememberMessage(s, message) ==
  IF isMessageAlreadySeen(s, message) THEN s
  ELSE LET newSeenMessage ==
             [id |-> message.id, srcAddress |-> message.srcAddress,
              destAddress |-> message.destAddress,
              timestamp |-> mSeenMessagesCleanupTimeout,
              type |-> SeenType(message.type)]
           kept == IF Len(s.mSeenMessages) >= mMaxSeenMessagesQueueSize
                   THEN Tail(s.mSeenMessages) ELSE s.mSeenMessages
       IN [s EXCEPT !.mSeenMessages = Append(kept, newSeenMessage)]

updateSeenMessages(s, dt) ==
  LET diff == s.sinceSeenMessagesCleanup + dt
  IN IF diff < mSeenMessagesCleanupInterval
     THEN [s EXCEPT !.sinceSeenMessagesCleanup = diff]
     ELSE LET aged == [i \in 1..Len(s.mSeenMessages) |->
                        [s.mSeenMessages[i] EXCEPT
                           !.timestamp = U32Sub(@, diff)]]
              Alive(e) == e.timestamp # 0     \* u_long: !(timestamp <= 0)
          IN [s EXCEPT !.sinceSeenMessagesCleanup = 0,
                       !.mSeenMessages = SelectSeq(aged, Alive)]

(***************************************************************************)
(* QuackMeshDevice: outbound queue, acknowledgements, confirmations        *)
(***************************************************************************)
getNewMessageId(s) == s.idid

\* QuackMeshDevice::getMACAddressForDestination.  The function is not
\* virtual, so this is also what processNextMessage of a router calls.
getMACAddressForDestination(s, destination) == BROADCAST_ADDRESS

\* the new frame placed in front of the queue
enqueueNewMessage_atFront(s, data, dataLength, destination, confirmed) ==
  LET newMessage == Message(0, IF confirmed THEN 1 ELSE 0, getNewMessageId(s),
                            InitialHopCount, s.self, destination,
                            dataLength, data)
      newEnqueuedMessage ==
        [type |-> IF confirmed THEN "Confirmed" ELSE "Unconfirmed",
         channel |-> 0, message |-> newMessage]
  IN [s EXCEPT !.idid = Uint8(@ + 1),
               !.mMessageQueue = <<newEnqueuedMessage>> \o @]

enqueueNewMessage(s, data, dataLength, destination, confirmed) ==
  LET newMessage == Message(0, IF confirmed THEN 1 ELSE 0, getNewMessageId(s),
                            InitialHopCount, s.self, destination,
                            dataLength, data)
      newEnqueuedMessage ==
        [type |-> IF confirmed THEN "Confirmed" ELSE "Unconfirmed",
         channel |-> 0, message |-> newMessage]
  IN [s EXCEPT !.idid = Uint8(@ + 1),
               !.mMessageQueue = Append(@, newEnqueuedMessage)]

\* the acknowledgement carrying the payload of the frame it acknowledges
sendAcknowledgement_echoesPayload(s, message) ==
  LET acknowledgementMessage ==
        Message(0, 3, message.id, InitialHopCount, s.self,
                message.srcAddress, message.len, message.data)
      newEnqueuedMessage ==
        [type |-> "Acknowledgement", channel |-> 0,
         message |-> acknowledgementMessage]
  IN [s EXCEPT !.mMessageQueue = Append(@, newEnqueuedMessage),
               !.ackLog = Append(@, acknowledgementMessage)]

sendAcknowledgement(s, message) ==
  LET acknowledgementMessage ==
        Message(0, 3, message.id, InitialHopCount, s.self,
                message.srcAddress, 0, <<>>)
      newEnqueuedMessage ==
        [type |-> "Acknowledgement", channel |-> 0,
         message |-> acknowledgementMessage]
  IN [s EXCEPT !.mMessageQueue = Append(@, newEnqueuedMessage),
               !.ackLog = Append(@, acknowledgementMessage)]

\* the sequence without its element at position i
RemoveAt(seq, i) == SubSeq(seq, 1, i - 1) \o SubSeq(seq, i + 1, Len(seq))

\* the first position of a pending confirmation for (id, address), or 0
FindConfirmation(pending, id, address) ==
  LET hits == {i \in 1..Len(pending) :
                 /\ pending[i].id = id
                 /\ isAddressMatching(pending[i].destAddress, address)}
  IN IF hits = {} THEN 0 ELSE CHOOSE i \in hits : \A j \in hits : i <= j

\* an acknowledgement that is received and thrown away
processReceivedAcknowledgement_ignored(s, message) == s

\* the status callback without the erase of the pending confirmation
processReceivedAcknowledgement_keepsPending(s, message) ==
  LET i == FindConfirmation(s.mMessagesLeftToConfirm, message.id,
                            message.srcAddress)
  IN IF i = 0 THEN s
     ELSE mSentStatusCallback(s, message.id, message.srcAddress,
                              "SendSuccess")

\* the pending confirmation looked up by the id alone
processReceivedAcknowledgement_anySource(s, message) ==
  LET hits == {i \in 1..Len(s.mMessagesLeftToConfirm) :
                 s.mMessagesLeftToConfirm[i].id = message.id}
      i == IF hits = {} THEN 0 ELSE CHOOSE i \in hits : \A j \in hits : i <= j
  IN IF i = 0 THEN s
     ELSE mSentStatusCallback(
            [s EXCEPT !.mMessagesLeftToConfirm = RemoveAt(@, i)],
            message.id, message.srcAddress, "SendSuccess")

processReceivedAcknowledgement(s, message) ==
  LET i == FindConfirmation(s.mMessagesLeftToConfirm, message.id,
                            message.srcAddress)
  IN IF i = 0 THEN s
     ELSE mSentStatusCallback(
            [s EXCEPT !.mMessagesLeftToConfirm = RemoveAt(@, i)],
            message.id, message.srcAddress, "SendSuccess")

checkForConfirmationTimeout(s, dt) ==
  LET diff == dt
      aged == [i \in 1..Len(s.mMessagesLeftToConfirm) |->
                 [s.mMessagesLeftToConfirm[i] EXCEPT
                    !.timestamp = Int16(@ - diff)]]
      Alive(c) == ~(c.timestamp <= 0)
      Expired(c) == c.timestamp <= 0
      expired == SelectSeq(aged, Expired)
      calls == [i \in 1..Len(expired) |->
                  [id |-> expired[i].id,
                   destAddress |-> expired[i].destAddress,
                   status |-> "Fail"]]
  IN [s EXCEPT !.sinceLastTimeoutCheck = 0,
               !.mMessagesLeftToConfirm = SelectSeq(aged, Alive),
               !.statusLog = @ \o calls]

\* the acknowledgement synthesised before the duplicate test
handleOwnMessage_acksDuplicates(s, message) ==
  IF isMessageAlreadySeen(s, message)
  THEN LET s0 == IF message.type = 1 THEN sendAcknowledgement(s, message)
                 ELSE s
       IN [s0 EXCEPT !.dupLog = Append(@, [type |-> message.type,
                                           id |-> message.id])]
  ELSE LET s1 == rememberMessage(s, message)
       IN CASE message.type = 0 -> mOnMessageCallback(s1, 0, message)
            [] message.type = 1 ->
                 mOnMessageCallback(sendAcknowledgement(s1, message),
                                    1, message)
            [] message.type = 3 -> processReceivedAcknowledgement(s1, message)
            [] OTHER -> mOnMessageCallback(s1, message.type, message)

handleOwnMessage(s, message) ==
  IF isMessageAlreadySeen(s, message)
  THEN [s EXCEPT !.dupLog = Append(@, [type |-> message.type,
                                       id |-> message.id])]
  ELSE LET s1 == rememberMessage(s, message)
       IN CASE message.type = 0 -> mOnMessageCallback(s1, 0, message)
            [] message.type = 1 ->
                 mOnMessageCallback(sendAcknowledgement(s1, message),
                                    1, message)
            [] message.type = 3 -> processReceivedAcknowledgement(s1, message)
            [] OTHER -> mOnMessageCallback(s1, message.type, message)

(***************************************************************************)
(* QuackMeshRouter                                                         *)
(***************************************************************************)
\* the frame forwarded with the hop count it arrived with
forwardMessage_keepsHopCount(s, message) ==
  IF message.hopCount - 1 = 0 THEN s
  ELSE IF isMessageAlreadySeen(s, message) THEN s
  ELSE LET s1 == rememberMessage(s, message)
           forwardingMessage ==
             Message(0, message.type, message.id, message.hopCount,
                     message.srcAddress, message.destAddress, message.len,
                     message.data)
           newEnqueuedMessage ==
             [type |-> "Forwarded", channel |-> 0,
              message |-> forwardingMessage]
       IN [s1 EXCEPT !.mMessageQueue = Append(@, newEnqueuedMessage),
                     !.fwdLog = @ \cup {[type |-> message.type,
                                         received |-> message.hopCount,
                                         enqueued |->
                                           forwardingMessage.hopCount]}]

\* the frame forwarded although the seen-set holds it
forwardMessage_ignoresSeen(s, message) ==
  IF message.hopCount - 1 = 0 THEN s
  ELSE LET s1 == rememberMessage(s, message)
           forwardingMessage ==
             Message(0, message.type, message.id, message.hopCount - 1,
                     message.srcAddress, message.destAddress, message.len,
                     message.data)
           newEnqueuedMessage ==
             [type |-> "Forwarded", channel |-> 0,
              message |-> forwardingMessage]
       IN [s1 EXCEPT !.mMessageQueue = Append(@, newEnqueuedMessage),
                     !.fwdLog = @ \cup {[type |-> message.type,
                                         received |-> message.hopCount,
                                         enqueued |->
                                           forwardingMessage.hopCount]}]

forwardMessage(s, message) ==
  IF message.hopCount - 1 = 0 THEN s
  ELSE IF isMessageAlreadySeen(s, message) THEN s
  ELSE LET s1 == rememberMessage(s, message)
           forwardingMessage ==
             Message(0, message.type, message.id, message.hopCount - 1,
                     message.srcAddress, message.destAddress, message.len,
                     message.data)
           newEnqueuedMessage ==
             [type |-> "Forwarded", channel |-> 0,
              message |-> forwardingMessage]
       IN [s1 EXCEPT !.mMessageQueue = Append(@, newEnqueuedMessage),
                     !.fwdLog = @ \cup {[type |-> message.type,
                                         received |-> message.hopCount,
                                         enqueued |->
                                           forwardingMessage.hopCount]}]

\* a plain device that forwards as a router does
handleForeignMessage_forwards(s, message) == forwardMessage(s, message)

\* virtual: QuackMeshRouter forwards, QuackMeshDevice throws the frame away
handleForeignMessage(s, message) ==
  IF s.self \in Routers THEN forwardMessage(s, message) ELSE s

\* the positions of the routing entries for destination
EntriesFor(table, destination) ==
  {i \in 1..Len(table) :
     isAddressMatching(table[i].destination, destination)}

\* the position at which a loop over the table stops, or 0
FirstEntry(hits) ==
  IF hits = {} THEN 0 ELSE CHOOSE i \in hits : \A j \in hits : i <= j

\* the first entry for destination overwritten whatever its hops
addOrUpdateRoutingInfo_overwrites(s, destination, link, hops) ==
  LET i == FirstEntry(EntriesFor(s.mRoutingTable, destination))
      newRoutingInfo ==
        [destination |-> destination, link |-> link, hops |-> Uint8(hops),
         timestamp |-> Int16(mRoutingTableUpdateTimeout)]
  IN IF i # 0
     THEN [s EXCEPT !.mRoutingTable[i] =
             [@ EXCEPT !.hops = Uint8(hops),
                       !.timestamp = Int16(mRoutingTableUpdateTimeout),
                       !.link = link]]
     ELSE [s EXCEPT !.mRoutingTable = Append(@, newRoutingInfo)]

\* the loop returns at the first entry for destination with more hops; if
\* there is none the new entry is pushed, whatever the size of the table
addOrUpdateRoutingInfo(s, destination, link, hops) ==
  LET i == FirstEntry({j \in EntriesFor(s.mRoutingTable, destination) :
                         Uint8(hops) < s.mRoutingTable[j].hops})
      newRoutingInfo ==
        [destination |-> destination, link |-> link, hops |-> Uint8(hops),
         timestamp |-> Int16(mRoutingTableUpdateTimeout)]
  IN IF i # 0
     THEN [s EXCEPT !.mRoutingTable[i] =
             [@ EXCEPT !.hops = Uint8(hops),
                       !.timestamp = Int16(mRoutingTableUpdateTimeout),
                       !.link = link]]
     ELSE [s EXCEPT !.mRoutingTable = Append(@, newRoutingInfo)]

\* QuackMeshRouter::getMACAddressForDestination.  The function of the base
\* class is not virtual, so QuackMeshDevice::processNextMessage never calls
\* this one.
QuackMeshRouter_getMACAddressForDestination(s, destination) ==
  LET i == FirstEntry(EntriesFor(s.mRoutingTable, destination))
  IN IF i = 0 THEN BROADCAST_ADDRESS ELSE s.mRoutingTable[i].link

updateRoutingTable(s, dt) ==
  LET diff == s.sinceLastRoutingTableUpdate + dt
  IN IF diff < mRoutingTableUpdateInterval
     THEN [s EXCEPT !.sinceLastRoutingTableUpdate = diff]
     ELSE LET aged == [i \in 1..Len(s.mRoutingTable) |->
                        [s.mRoutingTable[i] EXCEPT
                           !.timestamp = Int16(@ - diff)]]
              Alive(e) == ~(e.timestamp <= 0)
          IN [s EXCEPT !.sinceLastRoutingTableUpdate = 0,
                       !.mRoutingTable = SelectSeq(aged, Alive)]

(***************************************************************************)
(* Receive path                                                            *)
(***************************************************************************)
\* memcpy(&message, data.data, data.dataLength) into a zeroed Message: the
\* payload bytes beyond dataLength are not received
Decode(data) ==
  [data.data EXCEPT !.data = Take(@, data.dataLength - HeaderSize)]

onMessageReceived(s, data) ==
  LET message == Decode(data)
  IN IF isAddressMatching(message.destAddress, s.self)
     THEN handleOwnMessage(s, message)
     ELSE handleForeignMessage(s, message)

(***************************************************************************)
(* ESPNowClient: sending                                                   *)
(***************************************************************************)
\* memcpy(newDataToSend.data, data, dataLength): the first dataLength bytes
\* of the Message struct, i.e. the header and dataLength - 18 payload bytes
Encode(message, dataLength) ==
  [message EXCEPT !.data = Take(@, dataLength - HeaderSize)]

\* ESPNowClient::send; the result is the return code and the fields
send(s, macAddress, data, dataLength, maxSendTries, channel) ==
  IF s.WAITING_FOR_DATA_SENT_MUTEX THEN [rc |-> -1, s |-> s]
  ELSE [rc |-> 0,
        s |-> [s EXCEPT !.mNextDataToSend =
                 [destAddress |-> macAddress,
                  data |-> Encode(data, dataLength),
                  dataLength |-> Uint8(dataLength),
                  maxTriesLeft |-> Uint8(maxSendTries),
                  channel |-> channel]]]

\* send() copies dataLength bytes into SendingData::data, which holds 250.
\* For a longer frame the copy reads behind the Message and runs over the
\* fields that follow data in SendingData: dataLength (from 251 bytes on)
\* and maxTriesLeft (from 252 bytes on) end up as whatever bytes lie behind
\* the Message.  The fields of the node after the call that staged a frame:
StagingOutcomes(before, after) ==
  IF /\ after.mNextDataToSend # None
     /\ after.mNextDataToSend # before.mNextDataToSend
     /\ after.mNextDataToSend.maxTriesLeft = MaxSendTries
     /\ HeaderSize + after.mNextDataToSend.data.len > ESP_NOW_MAX_DATA_LEN
  THEN {[after EXCEPT
           !.mNextDataToSend.dataLength = b,
           !.mNextDataToSend.maxTriesLeft =
              IF HeaderSize + after.mNextDataToSend.data.len
                   > ESP_NOW_MAX_DATA_LEN + 1
              THEN m ELSE @] : b \in OverflowBytes, m \in OverflowBytes}
  ELSE {after}

sendingPossible(s) == ~s.WAITING_FOR_DATA_SENT_MUTEX

\* ESPNowClient::sendNow; status is what esp_now_send returns
sendNow(s, macAddress, data, dataLength, channel, status) ==
  IF s.WAITING_FOR_DATA_SENT_MUTEX THEN s
  ELSE IF status = 0
       THEN [s EXCEPT !.WAITING_FOR_DATA_SENT_MUTEX = TRUE,
                      !.driverBusy = TRUE]
       ELSE [s EXCEPT !.DATA_SENT_UPDATE_MUTEX = TRUE,
                      !.LAST_SENT_STATUS = "Fail",
                      !.WAITING_FOR_DATA_SENT_MUTEX = FALSE]

\* the status callback invoked for every entry, whatever its kind
onMessageSent_reportsEveryEntry(s, status) ==
  IF s.mMessageQueue = <<>> THEN [s EXCEPT !.mMessageSendingInProgress = FALSE]
  ELSE
  LET front == Head(s.mMessageQueue)
      s1 == mSentStatusCallback(s, front.message.id,
                                front.message.destAddress, status)
  IN [s1 EXCEPT !.mMessageSendingInProgress = FALSE,
                !.mMessageQueue = Tail(@)]

\* QuackMeshDevice::onMessageSent, bound to mOnDataSentCallback by begin().
\* (front() of an empty queue does not occur between begin() and stop().)
onMessageSent(s, status) ==
  IF s.mMessageQueue = <<>> THEN [s EXCEPT !.mMessageSendingInProgress = FALSE]
  ELSE
  LET front == Head(s.mMessageQueue)
      i == FindConfirmation(s.mMessagesLeftToConfirm, front.message.id,
                            front.message.destAddress)
      s1 == IF front.type = "Confirmed" /\ status = "Fail"
            THEN mSentStatusCallback(
                   [s EXCEPT !.mMessagesLeftToConfirm =
                      IF i = 0 THEN @ ELSE RemoveAt(@, i)],
                   front.message.id, front.message.destAddress, status)
            ELSE s
  IN [s1 EXCEPT !.mMessageSendingInProgress = FALSE,
                !.mMessageQueue = Tail(@)]

\* ESPNowClient::update, the block under DATA_SENT_UPDATE_MUTEX
\* LAST_SENT_STATUS after the test on maxTriesLeft, and the value that
\* mOnDataSentCallback is called with when that status is terminal
terminalSentStatus(s) ==
  IF s.LAST_SENT_STATUS = "PartialFail" /\ s.mNextDataToSend.maxTriesLeft = 0
  THEN "Fail" ELSE s.LAST_SENT_STATUS

reportedSentStatus(s) ==
  IF isAddressMatching(s.mNextDataToSend.destAddress, BROADCAST_ADDRESS)
  THEN "SendBroadcast" ELSE terminalSentStatus(s)

reconcileSentStatus(s) ==
  LET status1 == terminalSentStatus(s)
      status2 == reportedSentStatus(s)
      s1 == IF status1 \in {"Fail", "SendSuccess"}
            THEN [onMessageSent(s, status2) EXCEPT
                    !.mNextDataToSend = None,
                    !.WAITING_FOR_DATA_SENT_MUTEX = FALSE]
            ELSE s
  IN [s1 EXCEPT !.DATA_SENT_UPDATE_MUTEX = FALSE,
                !.LAST_SENT_STATUS = "Undetermined"]

\* ESPNowClient::processMessage
processMessage(s) ==
  IF s.RECEIVED_DATA = <<>> THEN s
  ELSE onMessageReceived([s EXCEPT !.RECEIVED_DATA = Tail(@)],
                         Head(s.RECEIVED_DATA))

\* received frames dispatched although the adapter waits for a send status
ESPNowClient_update_dispatchesWhileWaiting(s, dt, status) ==
  LET since == Min(s.sinceLastMessageSent + dt, mMessageSendInterval)
      s1 == IF s.NEW_DATA_RECEIVED_MUTEX
            THEN [s EXCEPT !.RECEIVED_DATA = Append(@, s.NEW_RECEIVED_DATA),
                           !.NEW_DATA_RECEIVED_MUTEX = FALSE]
            ELSE s
      s2 == IF s1.DATA_SENT_UPDATE_MUTEX THEN reconcileSentStatus(s1) ELSE s1
      s3 == IF /\ ~s2.DATA_SENT_UPDATE_MUTEX
               /\ ~s2.WAITING_FOR_DATA_SENT_MUTEX
               /\ s2.mNextDataToSend # None
               /\ since >= mMessageSendInterval
            THEN LET dataToSend == s2.mNextDataToSend
                     sent == sendNow([s2 EXCEPT !.sinceLastMessageSent = 0],
                                     dataToSend.destAddress, dataToSend.data,
                                     dataToSend.dataLength,
                                     dataToSend.channel, status)
                 IN [sent EXCEPT !.mNextDataToSend.maxTriesLeft =
                                    Uint8(@ - 1)]
            ELSE [s2 EXCEPT !.sinceLastMessageSent = since]
  IN processMessage(s3)

\* ESPNowClient::update; dt is the time since the previous update() and
\* status is what esp_now_send returns if it is called.  The test on
\* mMessageProcessInterval compares millis() with the time of the previous
\* dispatch (mLastMessageProcessedTs is never written), so it always passes.
ESPNowClient_update(s, dt, status) ==
  LET since == Min(s.sinceLastMessageSent + dt, mMessageSendInterval)
      s1 == IF s.NEW_DATA_RECEIVED_MUTEX
            THEN [s EXCEPT !.RECEIVED_DATA = Append(@, s.NEW_RECEIVED_DATA),
                           !.NEW_DATA_RECEIVED_MUTEX = FALSE]
            ELSE s
      s2 == IF s1.DATA_SENT_UPDATE_MUTEX THEN reconcileSentStatus(s1) ELSE s1
      s3 == IF /\ ~s2.DATA_SENT_UPDATE_MUTEX
               /\ ~s2.WAITING_FOR_DATA_SENT_MUTEX
               /\ s2.mNextDataToSend # None
               /\ since >= mMessageSendInterval
            THEN LET dataToSend == s2.mNextDataToSend
                     sent == sendNow([s2 EXCEPT !.sinceLastMessageSent = 0],
                                     dataToSend.destAddress, dataToSend.data,
                                     dataToSend.dataLength,
                                     dataToSend.channel, status)
                 IN [sent EXCEPT !.mNextDataToSend.maxTriesLeft =
                                    Uint8(@ - 1)]
            ELSE [s2 EXCEPT !.sinceLastMessageSent = since]
  IN IF ~s3.WAITING_FOR_DATA_SENT_MUTEX THEN processMessage(s3) ELSE s3

(***************************************************************************)
(* QuackMeshDevice / QuackMeshRouter: update                               *)
(***************************************************************************)
\* the frame staged without marking the sending in progress
processNextMessage_leavesFlagClear(s) ==
  IF s.mMessageSendingInProgress THEN s
  ELSE IF s.mMessageQueue = <<>> THEN s
  ELSE IF ~sendingPossible(s) THEN s
  ELSE LET nextMessage == Head(s.mMessageQueue)
           msgSize == HeaderSize + nextMessage.message.len
           r == send(s, getMACAddressForDestination(
                          s, nextMessage.message.destAddress),
                     nextMessage.message, msgSize, MaxSendTries,
                     nextMessage.channel)
       IN IF r.rc = 0
          THEN [r.s EXCEPT
                  !.mMessagesLeftToConfirm =
                     IF nextMessage.type = "Confirmed"
                     THEN Append(@, [timestamp |-> ConfirmationTimeout,
                                     id |-> nextMessage.message.id,
                                     destAddress |->
                                       nextMessage.message.destAddress])
                     ELSE @]
          ELSE [r.s EXCEPT !.mMessageSendingInProgress = FALSE,
                           !.mMessageQueue = Tail(@)]

processNextMessage(s) ==
  IF s.mMessageSendingInProgress THEN s
  ELSE IF s.mMessageQueue = <<>> THEN s
  ELSE IF ~sendingPossible(s) THEN s
  ELSE LET nextMessage == Head(s.mMessageQueue)
           msgSize == HeaderSize + nextMessage.message.len
           r == send(s, getMACAddressForDestination(
                          s, nextMessage.message.destAddress),
                     nextMessage.message, msgSize, MaxSendTries,
                     nextMessage.channel)
       IN IF r.rc = 0
          THEN [r.s EXCEPT
                  !.mMessageSendingInProgress = TRUE,
                  !.mMessagesLeftToConfirm =
                     IF nextMessage.type = "Confirmed"
                     THEN Append(@, [timestamp |-> ConfirmationTimeout,
                                     id |-> nextMessage.message.id,
                                     destAddress |->
                                       nextMessage.message.destAddress])
                     ELSE @]
          ELSE [r.s EXCEPT !.mMessageSendingInProgress = FALSE,
                           !.mMessageQueue = Tail(@)]

QuackMeshDevice_update(s, status) ==
  LET dt == s.sinceLastTimeoutCheck
      s1 == ESPNowClient_update(s, dt, status)
      s2 == updateSeenMessages(s1, dt)
      s3 == checkForConfirmationTimeout(s2, dt)
  IN processNextMessage(s3)

QuackMeshRouter_update(s, status) ==
  updateRoutingTable(QuackMeshDevice_update(s, status),
                     s.sinceLastTimeoutCheck)

(***************************************************************************)
(* ESPNowClient: interrupt handlers                                        *)
(***************************************************************************)
\* onDataReceived / processReceivedData (RECIEVED_DATA_ACCESS_MUTEX is clear
\* whenever update() is not running)
processReceivedData(s, macAddress, data, dataLength) ==
  IF dataLength < HeaderSize THEN s
  ELSE [s EXCEPT !.NEW_RECEIVED_DATA =
                    [srcAddress |-> macAddress, data |-> data,
                     dataLength |-> Uint8(dataLength)],
                 !.NEW_DATA_RECEIVED_MUTEX = TRUE]

\* onDataSent / processDataSent
processDataSent(s, status) ==
  [s EXCEPT !.LAST_SENT_STATUS =
               IF status = 0 THEN "SendSuccess" ELSE "PartialFail",
            !.DATA_SENT_UPDATE_MUTEX = TRUE,
            !.driverBusy = FALSE]

(***************************************************************************)
(* Initial state: after construction and begin()                           *)
(***************************************************************************)
NoReceivedData ==
  [srcAddress |-> "00:00:00:00:00:00",
   data |-> Message(0, 0, 0, 0, "00:00:00:00:00:00", "00:00:00:00:00:00",
                    0, <<>>),
   dataLength |-> 0]

InitNodes ==
  /\ RECEIVED_DATA = [n \in Nodes |-> <<>>]
  /\ NEW_RECEIVED_DATA = [n \in Nodes |-> NoReceivedData]
  /\ NEW_DATA_RECEIVED_MUTEX = [n \in Nodes |-> FALSE]
  /\ WAITING_FOR_DATA_SENT_MUTEX = [n \in Nodes |-> FALSE]
  /\ DATA_SENT_UPDATE_MUTEX = [n \in Nodes |-> FALSE]
  /\ LAST_SENT_STATUS = [n \in Nodes |-> "Undetermined"]
  /\ mNextDataToSend = [n \in Nodes |-> None]
  /\ mMessageQueue = [n \in Nodes |-> <<>>]
  /\ mMessagesLeftToConfirm = [n \in Nodes |-> <<>>]
  /\ mSeenMessages = [n \in Nodes |-> <<>>]
  /\ sinceSeenMessagesCleanup = [n \in Nodes |-> 0]
  /\ sinceLastTimeoutCheck = [n \in Nodes |-> 0]
  /\ mMessageSendingInProgress = [n \in Nodes |-> FALSE]
  /\ idid = [n \in Nodes |-> 0]
  /\ mRoutingTable = [n \in Nodes |-> <<>>]
  /\ sinceLastRoutingTableUpdate = [n \in Nodes |-> 0]
  /\ driverBusy = [n \in Nodes |-> FALSE]
  /\ air = [n \in Nodes |-> <<>>]
  /\ statusLog = [n \in Nodes |-> <<>>]
  /\ msgLog = [n \in Nodes |-> <<>>]
  /\ fwdLog = [n \in Nodes |-> {}]
  /\ ackLog = [n \in Nodes |-> <<>>]
  /\ dupLog = [n \in Nodes |-> <<>>]
  /\ rxCount = 0

\* mLastMessageSentTs is 0 and millis() counts from power-up: the first
\* update() may come before or after mMessageSendInterval has elapsed
InitSinceSent(ns) ==
  \E early \in SUBSET ns :
     sinceLastMessageSent =
       [n \in Nodes |-> IF n \in early THEN 0 ELSE mMessageSendInterval]

(***************************************************************************)
(* The radio                                                               *)
(***************************************************************************)
\* a chain A - R - B when the router runs, otherwise all nodes hear each other
InRange(n) ==
  IF "R" \in active
  THEN (IF n = "R" THEN active \ {"R"} ELSE active \cap {"R"})
  ELSE active \ {n}

\* the frame that this update() handed to esp_now_send with success, if any
Transmitted(before, after) ==
  IF after.driverBusy /\ ~before.driverBusy
  THEN <<[srcAddress |-> after.self,
          data |-> after.mNextDataToSend.data,
          dataLength |-> after.mNextDataToSend.dataLength]>>
  ELSE <<>>

(***************************************************************************)
(* Operations                                                              *)
(***************************************************************************)
Destinations == {"B", BROADCAST_ADDRESS}

DriverResults == {0, -1}

DriverStatuses == {0, 1}

\* the pauses between two calls of update() that are explored
TickGaps == {500, 1000}

LongGaps == {1000}

NetTickGaps == {100}

SendMessage(n, data, dataLength, destination) ==
  /\ n \in active
  /\ idid[n] < MaxSends
  /\ Commit(n, enqueueNewMessage(St(n), data, dataLength, destination, FALSE))
  /\ UNCHANGED <<active, air, rxCount>>

SendConfirmedMessage(n, data, dataLength, destination, limit) ==
  /\ n \in active
  /\ idid[n] < limit
  /\ Commit(n, enqueueNewMessage(St(n), data, dataLength, destination, TRUE))
  /\ UNCHANGED <<active, air, rxCount>>

\* update() of node n; status is what esp_now_send returns if it is called
Update(n, status) ==
  LET s == St(n)
      s2 == IF n \in Routers THEN QuackMeshRouter_update(s, status)
            ELSE QuackMeshDevice_update(s, status)
      out == Transmitted(s, s2)
  IN /\ n \in active
     /\ \E s3 \in StagingOutcomes(s, s2) : Commit(n, s3)
     /\ air' = [m \in Nodes |-> IF m \in InRange(n) THEN air[m] \o out
                                ELSE air[m]]
     /\ UNCHANGED <<active, rxCount>>

\* ESPNowClient::update moves NEW_RECEIVED_DATA into RECEIVED_DATA and then
\* clears NEW_DATA_RECEIVED_MUTEX without taking RECIEVED_DATA_ACCESS_MUTEX
\* or masking the interrupt.  When the receive interrupt writes the slot
\* while push() copies it, the bytes copied before the interrupt are those of
\* the old frame and the others those of the new one: here the copy is cut
\* behind the id field or behind the header.
TornCopies(old, new) ==
  {[srcAddress |-> old.srcAddress,
    data |-> [new.data EXCEPT !.networkID = old.data.networkID,
                              !.type = old.data.type,
                              !.id = old.data.id],
    dataLength |-> new.dataLength],
   [srcAddress |-> old.srcAddress,
    data |-> [old.data EXCEPT !.data = new.data.data],
    dataLength |-> new.dataLength]}

\* the node after the first block of update() when the receive interrupt has
\* fired inside it: during the copy, or between push() and the clearing of
\* the flag
InterruptedDrain(s, newReceivedData) ==
  {[s EXCEPT !.RECEIVED_DATA = Append(@, received),
             !.NEW_RECEIVED_DATA = newReceivedData,
             !.NEW_DATA_RECEIVED_MUTEX = FALSE] :
     received \in {s.NEW_RECEIVED_DATA}
                    \cup TornCopies(s.NEW_RECEIVED_DATA, newReceivedData)}

\* update() of node n during whose first block the receive interrupt fires
\* with message
UpdateInterrupted(n, status, message, limit) ==
  LET s == St(n)
      newReceivedData ==
        processReceivedData(s, message.srcAddress, message,
                            Min(HeaderSize + message.len,
                                ESP_NOW_MAX_DATA_LEN)).NEW_RECEIVED_DATA
  IN /\ n \in active
     /\ rxCount < limit
     /\ s.NEW_DATA_RECEIVED_MUTEX
     /\ \E drained \in InterruptedDrain(s, newReceivedData) :
          LET s2 == IF n \in Routers
                    THEN QuackMeshRouter_update(drained, status)
                    ELSE QuackMeshDevice_update(drained, status)
              out == Transmitted(s, s2)
          IN /\ \E s3 \in StagingOutcomes(s, s2) : Commit(n, s3)
             /\ air' = [m \in Nodes |->
                          IF m \in InRange(n) THEN air[m] \o out ELSE air[m]]
     /\ rxCount' = rxCount + 1
     /\ UNCHANGED active

\* acknowledgements from B for the ids node n has used so far
AckFrames(n) ==
  {Message(0, 3, id, InitialHopCount, "B", n, 0, <<>>) : id \in 0..(idid[n] - 1)}

\* data from B for node n, and frames that B addresses to another node X
\* with one hop left, none left and two left
DataFrames(n) ==
  {Message(0, type, 0, InitialHopCount, "B", n, 2, <<222, 173>>) :
     type \in {0, 1}}
  \cup {Message(0, 1, 0, hopCount, "B", "X", 0, <<>>) : hopCount \in {0, 1, 2}}

\* the receive interrupt of node n fires with a frame of the environment; the
\* driver delivers at most 250 bytes, whatever the frame's len field says
OnDataReceived(n, message, limit) ==
  /\ n \in active
  /\ rxCount < limit
  /\ Commit(n, processReceivedData(St(n), message.srcAddress, message,
                                   Min(HeaderSize + message.len,
                                       ESP_NOW_MAX_DATA_LEN)))
  /\ rxCount' = rxCount + 1
  /\ UNCHANGED <<active, air>>

\* the receive interrupt of node n fires with a frame a neighbour transmitted
Deliver(n) ==
  /\ n \in active
  /\ air[n] # <<>>
  /\ Commit(n, processReceivedData(St(n), Head(air[n]).srcAddress,
                                   Head(air[n]).data,
                                   Head(air[n]).dataLength))
  /\ air' = [air EXCEPT ![n] = Tail(@)]
  /\ UNCHANGED <<active, rxCount>>

\* the send interrupt of node n reports the outcome of the attempt
OnDataSent(n, status) ==
  /\ n \in active
  /\ driverBusy[n]
  /\ Commit(n, processDataSent(St(n), status))
  /\ UNCHANGED <<active, air, rxCount>>

AgeLog(log, d) ==
  [i \in 1..Len(log) |->
     [log[i] EXCEPT !.age = Min(@ + d, LogHorizon)]]

\* d milliseconds pass; every running node has called update() since the
\* last time this happened
Elapse(d) ==
  /\ \A n \in active : sinceLastTimeoutCheck[n] = 0
  /\ sinceLastTimeoutCheck' =
       [n \in Nodes |-> IF n \in active THEN d ELSE sinceLastTimeoutCheck[n]]
  /\ msgLog' = [n \in Nodes |-> AgeLog(msgLog[n], d)]
  /\ UNCHANGED <<active, RECEIVED_DATA, NEW_RECEIVED_DATA,
                 NEW_DATA_RECEIVED_MUTEX, WAITING_FOR_DATA_SENT_MUTEX,
                 DATA_SENT_UPDATE_MUTEX, LAST_SENT_STATUS, mNextDataToSend,
                 sinceLastMessageSent, mMessageQueue, mMessagesLeftToConfirm,
                 mSeenMessages, sinceSeenMessagesCleanup,
                 mMessageSendingInProgress, idid, mRoutingTable,
                 sinceLastRoutingTableUpdate, driverBusy, statusLog,
                 fwdLog, ackLog, dupLog, air, rxCount>>

(***************************************************************************)
(* Spec: one device that sends, with an arbitrary driver and peer B         *)
(***************************************************************************)
Init ==
  /\ active = {"A"}
  /\ InitNodes
  /\ InitSinceSent({})

Next ==
  \/ \E n \in Nodes : SendMessage(n, <<222, 173>>, 2, "B")
  \/ \E n \in Nodes, destination \in Destinations :
        SendConfirmedMessage(n, <<222, 173>>, 2, destination, MaxSends)
  \/ \E n \in Nodes, status \in DriverResults : Update(n, status)
  \/ \E n \in Nodes : \E message \in AckFrames(n) :
        OnDataReceived(n, message, MaxRecv)
  \/ \E n \in Nodes, status \in DriverStatuses : OnDataSent(n, status)
  \/ \E d \in LongGaps : Elapse(d)

Spec == Init /\ [][Next]_vars

(***************************************************************************)
(* RxSpec: one device or router that receives, with a driver that works    *)
(***************************************************************************)
RxInit ==
  /\ active \in {{"A"}, {"R"}}
  /\ InitNodes
  /\ InitSinceSent({})

RxNext ==
  \/ \E n \in Nodes : Update(n, 0)
  \/ \E n \in Nodes : \E message \in DataFrames(n) :
        OnDataReceived(n, message, MaxRecv)
  \/ \E n \in Nodes : OnDataSent(n, 0)
  \/ \E d \in TickGaps : Elapse(d)

RxSpec == RxInit /\ [][RxNext]_vars

(***************************************************************************)
(* NetSpec: A and B in range, or the chain A - R - B; no frame is lost, the *)
(* driver works, and every node calls update() at least every 100 ms        *)
(***************************************************************************)
NetInit ==
  /\ active \in {{"A", "B"}, {"A", "R", "B"}}
  /\ InitNodes
  /\ InitSinceSent(active)

\* the radio and the driver take no time
NetElapse ==
  /\ \A n \in active : air[n] = <<>> /\ ~driverBusy[n]
  /\ \E d \in NetTickGaps : Elapse(d)

NetNext ==
  \/ SendConfirmedMessage("A", <<222, 173>>, 2, "B", 1)
  \/ \E n \in Nodes : Update(n, 0)
  \/ \E n \in Nodes : Deliver(n)
  \/ \E n \in Nodes : OnDataSent(n, 0)
  \/ NetElapse

NetSpec == NetInit /\ [][NetNext]_vars

(***************************************************************************)
(* RouteSpec: a router whose routing table is filled by calls of           *)
(* addOrUpdateRoutingInfo (a protected member: the calls come from a       *)
(* subclass), and which sends one message to B                             *)
(***************************************************************************)
\* the routes that are announced: <<destination, link, hops>>
Routes == {<<"B", "A", 2>>, <<"B", "B", 1>>, <<"X", "A", 2>>}

RouteDestinations == {"B", "X"}

RouteGaps == {5000}

\* the route that is announced again and again once the table holds
\* RouteVariety entries
RepeatedRoute == <<"B", "A", 2>>

AddOrUpdateRoutingInfo(n, destination, link, hops) ==
  /\ n \in active \cap Routers
  /\ Len(mRoutingTable[n]) < MaxRoutes
  /\ \/ Len(mRoutingTable[n]) < RouteVariety
     \/ <<destination, link, hops>> = RepeatedRoute
  /\ Commit(n, addOrUpdateRoutingInfo(St(n), destination, link, hops))
  /\ UNCHANGED <<active, air, rxCount>>

RouteInit ==
  /\ active = {"R"}
  /\ InitNodes
  /\ InitSinceSent({})

RouteNext ==
  \/ \E n \in Nodes, route \in Routes :
        AddOrUpdateRoutingInfo(n, route[1], route[2], route[3])
  \/ \E n \in Nodes : idid[n] = 0 /\ SendMessage(n, <<222, 173>>, 2, "B")
  \/ \E n \in Nodes : Update(n, 0)
  \/ \E n \in Nodes : OnDataSent(n, 0)
  \/ \E d \in RouteGaps : Elapse(d)

RouteSpec == RouteInit /\ [][RouteNext]_vars

(***************************************************************************)
(* EdgeSpec: one device or router with inputs at the edge of the frame      *)
(* format: a payload length beyond the payload buffer, received frames with *)
(* a len field beyond it, and a frame for the broadcast address             *)
(***************************************************************************)
PayloadLengths == {2, 232, 233, 240}

\* from B: a broadcast frame (id 0), a confirmed frame for node n with len
\* 240 (id 1) and an unconfirmed frame for another node X with len 240 (id 2)
EdgeFrames(n) ==
  {Message(0, 0, 0, InitialHopCount, "B", BROADCAST_ADDRESS, 2, <<222, 173>>),
   Message(0, 1, 1, InitialHopCount, "B", n, 240, <<222, 173>>),
   Message(0, 0, 2, InitialHopCount, "B", "X", 240, <<222, 173>>)}

EdgeInit ==
  /\ active \in {{"A"}, {"R"}}
  /\ InitNodes
  /\ InitSinceSent({})

EdgeNext ==
  \/ \E n \in Nodes, dataLength \in PayloadLengths :
        idid[n] = 0 /\ SendMessage(n, <<222, 173>>, dataLength, "B")
  \/ \E n \in Nodes : Update(n, 0)
  \/ \E n \in Nodes : \E message \in EdgeFrames(n) :
        OnDataReceived(n, message, MaxRecv)
  \/ \E n \in Nodes : OnDataSent(n, 0)
  \/ \E d \in LongGaps : Elapse(d)

EdgeSpec == EdgeInit /\ [][EdgeNext]_vars

(***************************************************************************)
(* SeenSpec: one device that receives a run of different frames from B, so  *)
(* that its seen-set fills up                                               *)
(***************************************************************************)
\* the k-th frame of the run carries id k; it arrives when update() has
\* taken the frame before it (a frame that is overwritten in
\* NEW_RECEIVED_DATA leaves no trace in the seen-set)
SeenFrame(n) ==
  Message(0, 0, rxCount, InitialHopCount, "B", n, 2, <<222, 173>>)

SeenInit ==
  /\ active = {"A"}
  /\ InitNodes
  /\ InitSinceSent({})

SeenNext ==
  \/ \E n \in Nodes : Update(n, 0)
  \/ \E n \in Nodes :
        ~NEW_DATA_RECEIVED_MUTEX[n] /\ OnDataReceived(n, SeenFrame(n), MaxSeen)
  \/ \E d \in LongGaps : Elapse(d)

SeenSpec == SeenInit /\ [][SeenNext]_vars

(***************************************************************************)
(* OrderSpec: device A sends several confirmed frames to B with an          *)
(* arbitrary driver; B is in range and its receive interrupt is held back,  *)
(* so that air["B"] is the sequence of frames B observes                    *)
(***************************************************************************)
OrderInit ==
  /\ active = {"A", "B"}
  /\ InitNodes
  /\ InitSinceSent({})

OrderNext ==
  \/ SendConfirmedMessage("A", <<222, 173>>, 2, "B", MaxOrdered)
  \/ \E n \in Nodes, status \in DriverResults : Update(n, status)
  \/ \E n \in Nodes, status \in DriverStatuses : OnDataSent(n, status)
  \/ \E d \in LongGaps : Elapse(d)

OrderSpec == OrderInit /\ [][OrderNext]_vars

(***************************************************************************)
(* IsrSpec: one device that receives a run of different frames from B; the  *)
(* receive interrupt fires between two calls of update() when the slot is   *)
(* free, or inside update()                                                 *)
(***************************************************************************)
\* the k-th frame of the run carries id k and the payload <<k>>
IsrFrame(n) ==
  Message(0, 0, rxCount, InitialHopCount, "B", n, 1, <<rxCount>>)

IsrInit ==
  /\ active = {"A"}
  /\ InitNodes
  /\ InitSinceSent({})

IsrNext ==
  \/ \E n \in Nodes : Update(n, 0)
  \/ \E n \in Nodes :
        ~NEW_DATA_RECEIVED_MUTEX[n] /\ OnDataReceived(n, IsrFrame(n), MaxIsr)
  \/ \E n \in Nodes : UpdateInterrupted(n, 0, IsrFrame(n), MaxIsr)
  \/ \E d \in LongGaps : Elapse(d)

IsrSpec == IsrInit /\ [][IsrNext]_vars

(***************************************************************************)
(* BacklogSpec: device A sends one frame and, with the send status awaited  *)
(* or not, keeps receiving frames that B addresses to another node          *)
(***************************************************************************)
BacklogFrame(n) ==
  Message(0, 0, rxCount, InitialHopCount, "B", "X", 0, <<>>)

BacklogInit ==
  /\ active = {"A"}
  /\ InitNodes
  /\ InitSinceSent({})

BacklogNext ==
  \/ \E n \in Nodes : idid[n] = 0 /\ SendMessage(n, <<222, 173>>, 2, "B")
  \/ \E n \in Nodes : Update(n, 0)
  \/ \E n \in Nodes :
        /\ ~NEW_DATA_RECEIVED_MUTEX[n]
        /\ OnDataReceived(n, BacklogFrame(n), MaxBacklog)
  \/ \E n \in Nodes, status \in DriverStatuses : OnDataSent(n, status)
  \/ \E d \in LongGaps : Elapse(d)

BacklogSpec == BacklogInit /\ [][BacklogNext]_vars

(***************************************************************************)
(* AckSpec: one device or router that receives confirmed frames from B with *)
(* no payload, a short payload and the longest payload a frame holds         *)
(***************************************************************************)
PayloadSizes == <<0, 2, MaxPayload>>

Payload(len) == [i \in 1..len |-> i % 256]

\* the frame with the k-th payload size carries id k
ConfirmedFrames(n) ==
  {Message(0, 1, k, InitialHopCount, "B", n, PayloadSizes[k],
           Payload(PayloadSizes[k])) : k \in 1..Len(PayloadSizes)}

AckInit ==
  /\ active \in {{"A"}, {"R"}}
  /\ InitNodes
  /\ InitSinceSent({})

AckNext ==
  \/ \E n \in Nodes : Update(n, 0)
  \/ \E n \in Nodes : \E message \in ConfirmedFrames(n) :
        ~NEW_DATA_RECEIVED_MUTEX[n] /\ OnDataReceived(n, message, MaxAcked)
  \/ \E n \in Nodes : OnDataSent(n, 0)
  \/ \E d \in LongGaps : Elapse(d)

AckSpec == AckInit /\ [][AckNext]_vars

(***************************************************************************)
(* FwdSpec: router R receives frames that B addresses to another node X,    *)
(* with the network identifier 0 and with another one                       *)
(***************************************************************************)
NetworkIds == {0, 1}

\* the frame with network identifier k carries id k
ForeignFrames ==
  {Message(networkID, type, networkID, hopCount, "B", "X", 2, <<222, 173>>) :
     networkID \in NetworkIds, type \in {0, 1}, hopCount \in {2, 3}}

FwdInit ==
  /\ active = {"R"}
  /\ InitNodes
  /\ InitSinceSent({})

FwdNext ==
  \/ \E n \in Nodes : Update(n, 0)
  \/ \E n \in Nodes : \E message \in ForeignFrames :
        ~NEW_DATA_RECEIVED_MUTEX[n] /\ OnDataReceived(n, message, MaxForwarded)
  \/ \E n \in Nodes : OnDataSent(n, 0)
  \/ \E d \in LongGaps : Elapse(d)

FwdSpec == FwdInit /\ [][FwdNext]_vars

(***************************************************************************)
(* SilentSpec: router R queues an unconfirmed frame of its own, an          *)
(* acknowledgement and a forwarded frame, and the driver refuses, loses or  *)
(* delivers each attempt; no confirmed frame is sent                        *)
(***************************************************************************)
\* the k-th frame carries id k; the frames are in turn a confirmed frame for
\* node n and an unconfirmed frame for X, all from B
SilentFrame(n) ==
  IF rxCount % 2 = 0
  THEN Message(0, 1, rxCount, InitialHopCount, "B", n, 2, <<222, 173>>)
  ELSE Message(0, 0, rxCount, InitialHopCount, "B", "X", 2, <<222, 173>>)

\* B is in range of R and keeps what it observes in air[B]
SilentInit ==
  /\ active = {"R", "B"}
  /\ InitNodes
  /\ InitSinceSent({})

SilentNext ==
  \/ \E n \in Routers : idid[n] = 0 /\ SendMessage(n, <<222, 173>>, 2, "B")
  \/ \E n \in Nodes, status \in DriverResults : Update(n, status)
  \/ \E n \in Routers :
        ~NEW_DATA_RECEIVED_MUTEX[n] /\ OnDataReceived(n, SilentFrame(n), MaxSilent)
  \/ \E n \in Nodes, status \in DriverStatuses : OnDataSent(n, status)
  \/ \E d \in LongGaps : Elapse(d)

SilentSpec == SilentInit /\ [][SilentNext]_vars

(***************************************************************************)
(* LoopSpec: two routers R and S in range of each other; B originates a    *)
(* frame for a node X that does not exist, which reaches R, S or both;      *)
(* every frame a router transmits reaches the other router                  *)
(***************************************************************************)
\* the frame that B originates, as enqueueNewMessage builds it; its id is
\* its initial hop count
LoopFrame ==
  Message(0, 0, InitialHopCount, InitialHopCount, "B", "X", 2, <<222, 173>>)

\* B transmits the frame; the routers in reach receive it
Originate(reach) ==
  /\ rxCount < MaxLoop
  /\ reach # {}
  /\ air' = [n \in Nodes |->
               IF n \in reach
               THEN Append(air[n], [srcAddress |-> "B", data |-> LoopFrame,
                                    dataLength |-> HeaderSize + 2])
               ELSE air[n]]
  /\ rxCount' = rxCount + 1
  /\ UNCHANGED <<active, nodeVars>>

LoopInit ==
  /\ active = {"R", "S"}
  /\ InitNodes
  /\ InitSinceSent({})

\* the radio and the driver take no time
LoopElapse ==
  /\ \A n \in active : air[n] = <<>> /\ ~driverBusy[n]
  /\ \E d \in LongGaps : Elapse(d)

LoopNext ==
  \/ \E n \in Nodes : Update(n, 0)
  \/ \E reach \in SUBSET active : Originate(reach)
  \/ \E n \in Nodes : ~NEW_DATA_RECEIVED_MUTEX[n] /\ Deliver(n)
  \/ \E n \in Nodes : OnDataSent(n, 0)
  \/ LoopElapse

LoopSpec == LoopInit /\ [][LoopNext]_vars

(***************************************************************************)
(* RestartSpec: device A sends unconfirmed frames with a driver that works, *)
(* and is stopped and started again at any moment                           *)
(***************************************************************************)
\* QuackMeshDevice::stop and ESPNowClient::stop: the callbacks are
\* unregistered and the driver is deinitialised, so a send in flight never
\* reports its status; no flag and no member is reset
Stop(n) ==
  /\ n \in active
  /\ active' = active \ {n}
  /\ Commit(n, [St(n) EXCEPT !.driverBusy = FALSE])
  /\ UNCHANGED <<air, rxCount>>

\* QuackMeshDevice::begin and ESPNowClient::begin on a device that was
\* stopped: the callbacks are bound again, the driver is initialised, and
\* the two cleanup timers start; nothing else is written
Begin(n) ==
  /\ n \in {"A"} \ active
  /\ active' = active \cup {n}
  /\ Commit(n, [St(n) EXCEPT !.sinceSeenMessagesCleanup = 0,
                             !.sinceLastTimeoutCheck = 0])
  /\ UNCHANGED <<air, rxCount>>

RestartSend(n) ==
  /\ n \in active
  /\ idid[n] < MaxRestart
  /\ Commit(n, enqueueNewMessage(St(n), <<222, 173>>, 2, "B", FALSE))
  /\ UNCHANGED <<active, air, rxCount>>

RestartInit ==
  /\ active = {"A"}
  /\ InitNodes
  /\ InitSinceSent({})

RestartNext ==
  \/ \E n \in Nodes : RestartSend(n)
  \/ \E n \in Nodes : Update(n, 0)
  \/ \E n \in Nodes : OnDataSent(n, 0)
  \/ \E n \in Nodes : Stop(n)
  \/ \E n \in Nodes : Begin(n)
  \/ \E d \in LongGaps : Elapse(d)

RestartSpec == RestartInit /\ [][RestartNext]_vars

(***************************************************************************)
(* BurstSpec: device A receives a run of different frames from B; the       *)
(* receive interrupt fires between two calls of update(), any number of     *)
(* times                                                                    *)
(***************************************************************************)
BurstInit ==
  /\ active = {"A"}
  /\ InitNodes
  /\ InitSinceSent({})

BurstNext ==
  \/ \E n \in Nodes : Update(n, 0)
  \/ \E n \in Nodes : OnDataReceived(n, IsrFrame(n), MaxBurst)
  \/ \E d \in LongGaps : Elapse(d)

BurstSpec == BurstInit /\ [][BurstNext]_vars

(***************************************************************************)
(* EchoSpec: two routers R and S in range of each other; each may send one  *)
(* frame of its own to B, and hears what the other transmits                *)
(***************************************************************************)
EchoInit ==
  /\ active = {"R", "S"}
  /\ InitNodes
  /\ InitSinceSent({})

EchoNext ==
  \/ \E n \in Nodes : idid[n] = 0 /\ SendMessage(n, <<222, 173>>, 2, "B")
  \/ \E n \in Nodes : Update(n, 0)
  \/ \E n \in Nodes : ~NEW_DATA_RECEIVED_MUTEX[n] /\ Deliver(n)
  \/ \E n \in Nodes : OnDataSent(n, 0)
  \/ LoopElapse

EchoSpec == EchoInit /\ [][EchoNext]_vars

(***************************************************************************)
(* Properties                                                              *)
(***************************************************************************)

\* C1: when update() reconciles a failed attempt (PartialFail) of the staged
\* frame and tries are left, the adapter no longer awaits a status afterwards
\* (it is Armed again, so that the frame can be handed to the driver again).
C1_PartialFailReturnsToArmed ==
  [][\A n \in Nodes :
       (/\ DATA_SENT_UPDATE_MUTEX[n]
        /\ LAST_SENT_STATUS[n] = "PartialFail"
        /\ mNextDataToSend[n] # None
        /\ mNextDataToSend[n].maxTriesLeft > 0
        /\ ~DATA_SENT_UPDATE_MUTEX'[n])
       => ~WAITING_FOR_DATA_SENT_MUTEX'[n]]_vars

\* C2: no entry stays at the head of the outbound queue forever: while an
\* entry is in flight (send_in_progress and the adapter awaits its status),
\* the status is still to come - the driver owes a report for the attempt or
\* a reported status waits to be reconciled by update().
HeadStuck(n) ==
  /\ mMessageQueue[n] # <<>>
  /\ mMessageSendingInProgress[n]
  /\ WAITING_FOR_DATA_SENT_MUTEX[n]
  /\ ~DATA_SENT_UPDATE_MUTEX[n]
  /\ ~driverBusy[n]

C2_OutboundQueueDrains == \A n \in Nodes : ~HeadStuck(n)

\* once the head is stuck it stays stuck, whatever happens afterwards
HeadStuckForever ==
  [][\A n \in Nodes :
       HeadStuck(n) => (HeadStuck(n))' /\ mMessageQueue'[n][1] = mMessageQueue[n][1]]_vars

\* C3: with A and B in range, no loss and both calling update(), A's
\* sendConfirmedMessage([0xDE,0xAD], B) makes B's message callback fire once
\* with (type 1, source A, the payload) and B enqueue one acknowledgement for
\* A; the confirmation never times out: A's status callback reports nothing
\* but one SendSuccess, and it has reported it once the exchange is over.
SuccessAtA == [id |-> 0, destAddress |-> "B", status |-> "SendSuccess"]

AckOfB == Message(0, 3, 0, InitialHopCount, "B", "A", 0, <<>>)

DeliveredOnceAtB ==
  /\ Len(msgLog["B"]) = 1
  /\ msgLog["B"][1].type = 1
  /\ msgLog["B"][1].srcAddress = "A"
  /\ msgLog["B"][1].data = <<222, 173>>

ExchangeOver(n) ==
  /\ idid[n] = 1
  /\ mMessageQueue[n] = <<>>
  /\ mMessagesLeftToConfirm[n] = <<>>

C3_DirectConfirmedDelivery ==
  active = {"A", "B"} =>
    /\ msgLog["B"] # <<>> => DeliveredOnceAtB
    /\ ackLog["B"] = [i \in 1..Len(msgLog["B"]) |-> AckOfB]
    /\ \A i \in 1..Len(mMessagesLeftToConfirm["A"]) :
          mMessagesLeftToConfirm["A"][i].timestamp > 0
    /\ statusLog["A"] \in {<<>>, <<SuccessAtA>>}
    /\ statusLog["A"] # <<>> => DeliveredOnceAtB
    /\ ExchangeOver("A") => statusLog["A"] = <<SuccessAtA>>

C3_Witness ==
  /\ active = {"A", "B"}
  /\ DeliveredOnceAtB
  /\ ackLog["B"] = <<AckOfB>>
  /\ statusLog["A"] = <<SuccessAtA>>
  /\ ExchangeOver("A")

\* C4: the status callback is invoked at most once for a confirmed send
\* (one id and destination), with SendSuccess, SendBroadcast or Fail, however
\* acknowledgements (duplicates included), the confirmation timeout and the
\* link-level completion interleave.
C4_AtMostOneStatusCallback ==
  \A n \in Nodes :
    \A i, j \in 1..Len(statusLog[n]) :
      /\ statusLog[n][i].status \in {"SendSuccess", "SendBroadcast", "Fail"}
      /\ (/\ statusLog[n][i].id = statusLog[n][j].id
          /\ statusLog[n][i].destAddress = statusLog[n][j].destAddress)
         => i = j

\* a send acknowledged, the acknowledgement received again and dropped
C4_Witness ==
  /\ statusLog["A"] = <<[id |-> 0, destAddress |-> "B",
                         status |-> "SendSuccess"]>>
  /\ dupLog["A"] = <<[type |-> 3, id |-> 0]>>
  /\ mMessagesLeftToConfirm["A"] = <<>>

\* C5: a locally addressed frame reaches the message callback only if no
\* frame of the same id, source, destination and kind reached it within the
\* preceding mSeenMessagesCleanupTimeout (2000 ms).
C5_DuplicateSuppression ==
  \A n \in Nodes :
    \A i \in 1..Len(msgLog[n]) : msgLog[n][i].gap >= mSeenMessagesCleanupTimeout

\* C6: a confirmed send to the broadcast address FF:FF:FF:FF:FF:FF never has
\* its status callback invoked with Fail, only with SendBroadcast, even when
\* no acknowledgement arrives and the confirmation timeout elapses.
C6_BroadcastConfirmedNeverFails ==
  \A n \in Nodes :
    \A i \in 1..Len(statusLog[n]) :
      statusLog[n][i].destAddress = BROADCAST_ADDRESS
        => statusLog[n][i].status = "SendBroadcast"

\* the calls of the message callback for confirmed frames, and the confirmed
\* frames dropped as duplicates
IsConfirmedFrame(e) == e.type = 1

ConfirmedDelivered(n) == SelectSeq(msgLog[n], IsConfirmedFrame)

ConfirmedDropped(n) == SelectSeq(dupLog[n], IsConfirmedFrame)

\* C7 (as claimed): an acknowledgement is enqueued for every reception of a
\* confirmed frame, also for a reception that is dropped as a duplicate (the
\* message callback fired for the first reception only).
C7_AckForEachReception ==
  \A n \in Nodes :
    Len(ackLog[n]) = Len(ConfirmedDelivered(n)) + Len(ConfirmedDropped(n))

\* C7 (amended): acknowledgements are enqueued one for one with the calls of
\* the message callback for confirmed frames, each addressed to the frame's
\* source with the frame's id; a reception dropped as a duplicate enqueues
\* none.
C7_AckOnlyWhenDelivered ==
  \A n \in Nodes :
    /\ Len(ackLog[n]) = Len(ConfirmedDelivered(n))
    /\ \A i \in 1..Len(ackLog[n]) :
          ackLog[n][i] =
            Message(0, 3, ConfirmedDelivered(n)[i].id, InitialHopCount, n,
                    ConfirmedDelivered(n)[i].srcAddress, 0, <<>>)

\* a confirmed frame delivered once, received again and dropped, one ack
C7_Witness ==
  /\ Len(ConfirmedDelivered("A")) = 1
  /\ Len(ConfirmedDropped("A")) = 1
  /\ Len(ackLog["A"]) = 1

\* the status that update() is about to reconcile is the final failure of
\* the attempt for a confirmed frame for one node at the head of the queue
FinalLinkFailure(n) ==
  /\ DATA_SENT_UPDATE_MUTEX[n]
  /\ mNextDataToSend[n] # None
  /\ \/ LAST_SENT_STATUS[n] = "Fail"
     \/ /\ LAST_SENT_STATUS[n] = "PartialFail"
        /\ mNextDataToSend[n].maxTriesLeft = 0
  /\ mMessageQueue[n] # <<>>
  /\ Head(mMessageQueue[n]).type = "Confirmed"
  /\ Head(mMessageQueue[n]).message.destAddress # BROADCAST_ADDRESS

\* C8: when update() reconciles the final link failure of a confirmed frame,
\* it erases the pending confirmation of the frame's id and destination and
\* invokes the status callback with Fail, at link completion.
C8_LinkFailureReportsFail ==
  [][\A n \in Nodes :
       (FinalLinkFailure(n) /\ ~DATA_SENT_UPDATE_MUTEX'[n])
       => LET front == Head(mMessageQueue[n]).message
          IN /\ FindConfirmation(mMessagesLeftToConfirm'[n], front.id,
                                 front.destAddress) = 0
             /\ \E i \in 1..Len(statusLog'[n]) :
                   statusLog'[n][i] = [id |-> front.id,
                                       destAddress |-> front.destAddress,
                                       status |-> "Fail"]]_vars

\* C9: the hop count of a frame a router enqueues for forwarding is strictly
\* less than the hop count of the received frame, and nothing is enqueued for
\* a frame received with hop count 1.
C9_ForwardedHopCountDecreases ==
  \A n \in Nodes :
    \A e \in fwdLog[n] : e.enqueued < e.received /\ e.received # 1

\* what R enqueues for A's confirmed frame and for B's acknowledgement
ForwardOfData == [type |-> 1, received |-> InitialHopCount, enqueued |-> 2]

ForwardOfAck == [type |-> 3, received |-> InitialHopCount, enqueued |-> 2]

\* C10: in the chain A - R - B without loss, R enqueues A's confirmed frame
\* (hop count 3) with hop count 2, B delivers it once and enqueues one
\* acknowledgement (hop count 3, source B, destination A), R enqueues that
\* with hop count 2, and A's status callback reports one SendSuccess and
\* never the Fail of the confirmation timeout.
C10_OneHopForwarding ==
  active = {"A", "R", "B"} =>
    /\ fwdLog["R"] \subseteq {ForwardOfData, ForwardOfAck}
    /\ msgLog["B"] # <<>> => DeliveredOnceAtB /\ ForwardOfData \in fwdLog["R"]
    /\ ackLog["B"] = [i \in 1..Len(msgLog["B"]) |-> AckOfB]
    /\ ForwardOfAck \in fwdLog["R"] => ackLog["B"] = <<AckOfB>>
    /\ \A i \in 1..Len(mMessagesLeftToConfirm["A"]) :
          mMessagesLeftToConfirm["A"][i].timestamp > 0
    /\ statusLog["A"] \in {<<>>, <<SuccessAtA>>}
    /\ statusLog["A"] # <<>> => ForwardOfAck \in fwdLog["R"]
    /\ ExchangeOver("A") => statusLog["A"] = <<SuccessAtA>>

C10_Witness ==
  /\ active = {"A", "R", "B"}
  /\ fwdLog["R"] = {ForwardOfData, ForwardOfAck}
  /\ DeliveredOnceAtB
  /\ statusLog["A"] = <<SuccessAtA>>
  /\ ExchangeOver("A")
  /\ mMessageQueue["R"] = <<>>

\* update() has staged a frame for the adapter in this step
Staged(n) ==
  /\ mNextDataToSend'[n] # None
  /\ mNextDataToSend'[n] # mNextDataToSend[n]
  /\ mNextDataToSend'[n].maxTriesLeft = MaxSendTries

\* C11: when update() of a router stages a frame and the routing table holds
\* an entry for the frame's destination, the link address given to
\* ESPNowClient::send is the link of the first such entry; it is the
\* broadcast address only when there is none.
C11_RouterUsesRoutingTable ==
  [][\A n \in Routers :
       Staged(n) =>
         mNextDataToSend'[n].destAddress =
           QuackMeshRouter_getMACAddressForDestination(
             St(n), mNextDataToSend'[n].data.destAddress)]_vars

\* the received frames that wait for dispatch by update(), and the one that
\* is dispatched first
Pending(n) ==
  Len(RECEIVED_DATA[n]) + (IF NEW_DATA_RECEIVED_MUTEX[n] THEN 1 ELSE 0)

NextReceived(n) ==
  IF RECEIVED_DATA[n] # <<>> THEN Head(RECEIVED_DATA[n])
  ELSE NEW_RECEIVED_DATA[n]

\* update() has dispatched a received frame in this step
Dispatched(n) == Pending(n)' < Pending(n)

\* C12: a router learns routes from the frames it receives: when its
\* update() has dispatched a received frame, its routing table holds an
\* entry.
C12_RoutingTableSelfUpdating ==
  [][\A n \in Routers : Dispatched(n) => mRoutingTable'[n] # <<>>]_vars

\* without calls of addOrUpdateRoutingInfo from a subclass no routing table
\* ever holds an entry (RxSpec, NetSpec, Spec)
RoutingTableStaysEmpty == \A n \in Nodes : mRoutingTable[n] = <<>>

\* C13: a frame addressed to the broadcast address is delivered to the
\* on-message callback of every node that receives it: when update()
\* dispatches such a frame on a node that has seen no frame yet, the callback
\* is invoked.
C13_BroadcastDelivered ==
  [][\A n \in active :
       (/\ Dispatched(n)
        /\ NextReceived(n).data.destAddress = BROADCAST_ADDRESS
        /\ mSeenMessages[n] = <<>>)
         => Len(msgLog'[n]) = Len(msgLog[n]) + 1]_vars

\* update() has handed a received frame to the on-message callback in this
\* step (handleOwnMessage then records the frame in the seen-set)
Recorded(n) == Len(msgLog'[n]) = Len(msgLog[n]) + 1

SeenIds(seen) == [i \in 1..Len(seen) |-> seen[i].id]

\* C15: the seen-set never holds more than mMaxSeenMessagesQueueSize (10)
\* entries; a frame that is recorded is the last entry afterwards, and when
\* the set was full and stays full the entry inserted first has gone and the
\* others have kept their order.
C15_SeenSetBounded ==
  /\ \A n \in Nodes : Len(mSeenMessages[n]) <= mMaxSeenMessagesQueueSize
  /\ [][\A n \in active :
          /\ Len(mSeenMessages'[n]) <= mMaxSeenMessagesQueueSize
          /\ Recorded(n) =>
               /\ mSeenMessages'[n] # <<>>
               /\ mSeenMessages'[n][Len(mSeenMessages'[n])].id
                    = NextReceived(n).data.id
               /\ (/\ Len(mSeenMessages[n]) = mMaxSeenMessagesQueueSize
                   /\ Len(mSeenMessages'[n]) = mMaxSeenMessagesQueueSize)
                    => SeenIds(mSeenMessages'[n])
                         = Append(Tail(SeenIds(mSeenMessages[n])),
                                  NextReceived(n).data.id)]_vars

\* the seen-set was full with the frames 0..9, and frames 10 and 11 have been
\* recorded since: 0 and 1 have gone
C15_Witness ==
  /\ Len(msgLog["A"]) = 12
  /\ SeenIds(mSeenMessages["A"]) = [i \in 1..10 |-> i + 1]

\* what update() of a plain device leads to when no received frame waits
WithoutReceived(n) ==
  QuackMeshDevice_update([St(n) EXCEPT !.NEW_DATA_RECEIVED_MUTEX = FALSE], 0)

C18_FrameSizeOnWire ==
  \A n \in Nodes :
     mNextDataToSend[n] # None =>
       /\ HeaderSize <= mNextDataToSend[n].dataLength
       /\ mNextDataToSend[n].dataLength <= ESP_NOW_MAX_DATA_LEN
       /\ mNextDataToSend[n].dataLength
            = HeaderSize + mNextDataToSend[n].data.len

\* the received frames of EdgeSpec whose len field exceeds the payload buffer
LongFrames(n) == {message \in EdgeFrames(n) : message.len > MaxPayload}

IsLongFrame(n, srcAddress, id) ==
  \E message \in LongFrames(n) :
     message.srcAddress = srcAddress /\ message.id = id

\* C19: a received frame whose len field is greater than 232 is dropped at
\* ingress: it is never handed to the on-message callback, never
\* acknowledged, never forwarded and never recorded in the seen-set.
C19_LongFramesDropped ==
  \A n \in active :
     /\ \A i \in 1..Len(msgLog[n]) : msgLog[n][i].len <= MaxPayload
     /\ \A i \in 1..Len(ackLog[n]) :
           ~IsLongFrame(n, ackLog[n][i].destAddress, ackLog[n][i].id)
     /\ \A i \in 1..Len(mMessageQueue[n]) :
           mMessageQueue[n][i].type = "Forwarded"
             => mMessageQueue[n][i].message.len <= MaxPayload
     /\ \A i \in 1..Len(mSeenMessages[n]) :
           ~IsLongFrame(n, mSeenMessages[n][i].srcAddress,
                        mSeenMessages[n][i].id)

\* C20: on the sending device the acknowledgement of a confirmed frame is
\* not processed before the frame's sent-callback has run: once the status
\* callback has reported SendSuccess, onMessageSent has taken the frame off
\* the outbound queue and ended the sending, and the adapter waits for no
\* send status.
C20_AckAfterSentCallback ==
  \A n \in active :
     (\E i \in 1..Len(statusLog[n]) : statusLog[n][i].status = "SendSuccess")
       => /\ mMessageQueue[n] = <<>>
          /\ ~mMessageSendingInProgress[n]
          /\ ~WAITING_FOR_DATA_SENT_MUTEX[n]
          /\ ~driverBusy[n]
          /\ mNextDataToSend[n] = None

\* the acknowledgement has arrived at A before the send interrupt, and an
\* update() of A has kept it back: it waits in RECEIVED_DATA
C20_Witness ==
  /\ RECEIVED_DATA["A"] # <<>>
  /\ Head(RECEIVED_DATA["A"]).data.type = 3
  /\ Head(RECEIVED_DATA["A"]).data.id = 0
  /\ WAITING_FOR_DATA_SENT_MUTEX["A"]
  /\ driverBusy["A"]
  /\ statusLog["A"] = <<>>

\* C14: the routing table never holds more than mMaxRoutingEntries entries.
C14_RoutingTableBounded ==
  \A n \in Nodes : Len(mRoutingTable[n]) <= mMaxRoutingEntries

\* the routing entries for destination, in table order
RoutesTo(table, destination) ==
  LET To(e) == isAddressMatching(e.destination, destination)
  IN SelectSeq(table, To)

\* C16: a routing entry's hops never increase (a call leaves every entry in
\* its place with as many hops or fewer, aging only removes entries), and
\* the entry getMACAddressForDestination picks for a destination has the
\* fewest hops of the entries alive for it.
C16_RouteNeverGetsWorse ==
  [][\A n \in Routers :
       LET old == mRoutingTable[n]
           new == mRoutingTable'[n]
       IN /\ Len(new) >= Len(old) =>
               \A i \in 1..Len(old) :
                  /\ new[i].destination = old[i].destination
                  /\ new[i].hops <= old[i].hops
          /\ Len(new) < Len(old) =>
               \A j \in 1..Len(new) : \E i \in j..Len(old) :
                  /\ new[j].destination = old[i].destination
                  /\ new[j].link = old[i].link
                  /\ new[j].hops = old[i].hops
          /\ \A destination \in RouteDestinations :
               \A j \in 1..Len(RoutesTo(new, destination)) :
                  RoutesTo(new, destination)[1].hops
                    <= RoutesTo(new, destination)[j].hops]_vars

\* a destination with two entries alive: the one with fewer hops comes first
\* and is the older one, so it is the next to age away
C16_Witness ==
  /\ Len(RoutesTo(mRoutingTable["R"], "B")) >= 2
  /\ RoutesTo(mRoutingTable["R"], "B")[1].hops = 1
  /\ RoutesTo(mRoutingTable["R"], "B")[2].hops = 2
  /\ RoutesTo(mRoutingTable["R"], "B")[1].timestamp
       < RoutesTo(mRoutingTable["R"], "B")[2].timestamp

\* update() has handed a frame to esp_now_send in this step, and the driver
\* has taken it
HandedToDriver(n) == driverBusy'[n] /\ ~driverBusy[n]

\* C21: frames are handed to the driver in the order in which they were
\* enqueued, one at a time: the frame handed over is the head of the outbound
\* queue, which stays the head until its sent-callback pops it, and the
\* frames of A that B observes carry increasing ids (ids are given in enqueue
\* order), whatever the driver loses.
C21_EnqueueOrderPreserved ==
  /\ [](\A i \in 1..Len(air["B"]) : \A j \in 1..Len(air["B"]) :
          i < j => air["B"][i].data.id < air["B"][j].data.id)
  /\ [](\A n \in active :
          WAITING_FOR_DATA_SENT_MUTEX[n] =>
            /\ mMessageQueue[n] # <<>>
            /\ mNextDataToSend[n] # None
            /\ mNextDataToSend[n].data = Head(mMessageQueue[n]).message)
  /\ [][\A n \in active :
          /\ HandedToDriver(n) =>
               /\ mMessageQueue[n] # <<>>
               /\ mMessageSendingInProgress[n]
               /\ mNextDataToSend'[n].data = Head(mMessageQueue[n]).message
               /\ mMessageQueue'[n] = mMessageQueue[n]
          /\ \/ mMessageQueue'[n] = mMessageQueue[n]
             \/ mMessageQueue[n] # <<>> /\ mMessageQueue'[n] = Tail(mMessageQueue[n])
             \/ \E e \in {mMessageQueue'[n][Len(mMessageQueue'[n])]} :
                   mMessageQueue'[n] = Append(mMessageQueue[n], e)]_vars

\* B observes the three frames of A, in the order 0, 1, 2
C21_Witness ==
  /\ Len(air["B"]) = MaxOrdered
  /\ \A i \in 1..Len(air["B"]) :
        air["B"][i].srcAddress = "A" /\ air["B"][i].data.id = i - 1
  /\ mMessageQueue["A"] = <<>>

\* C22: a seen-set entry is gone at the latest mSeenMessagesCleanupTimeout +
\* mSeenMessagesCleanupInterval (2000 + 1000 ms) after it was recorded, so a
\* frame for the node that update() dispatches later than that after the
\* last delivery of the same frame is handled as new: the callback is
\* invoked.
C22_SeenEntryExpires ==
  [][\A n \in active :
       (/\ Dispatched(n)
        /\ NextReceived(n).data.destAddress = n
        /\ NextReceived(n).data.type \in {0, 1}
        /\ LastGap(msgLog[n], NextReceived(n).data.type,
                   NextReceived(n).data) >= LogHorizon)
         => Recorded(n)]_vars

\* C23: the confirmation timeout runs from the link-level completion of the
\* confirmed frame: when the status callback has reported Fail for a frame,
\* the frame's sent-callback has fired, so the frame has left the outbound
\* queue.
C23_TimeoutAfterSentCallback ==
  \A n \in active :
     \A i \in 1..Len(statusLog[n]) :
        statusLog[n][i].status = "Fail" =>
          \A k \in 1..Len(mMessageQueue[n]) :
             ~(/\ mMessageQueue[n][k].type = "Confirmed"
               /\ mMessageQueue[n][k].message.id = statusLog[n][i].id
               /\ isAddressMatching(mMessageQueue[n][k].message.destAddress,
                                    statusLog[n][i].destAddress))

\* a further call of ESPNowClient::send on node n, with another frame
SendAgain(n) ==
  send(St(n), BROADCAST_ADDRESS,
       Message(0, 0, 255, InitialHopCount, n, "B", 0, <<>>), HeaderSize,
       MaxSendTries, 0)

\* C24: while an accepted frame has not reached its terminal outcome (it is
\* staged, handed to the driver or not yet), sendingPossible() is false and
\* send() returns -1 and leaves the staged frame as it is.
C24_SendBusyWhileStaged ==
  \A n \in active :
     mNextDataToSend[n] # None =>
       /\ ~sendingPossible(St(n))
       /\ SendAgain(n).rc = -1
       /\ SendAgain(n).s.mNextDataToSend = mNextDataToSend[n]

\* the send status that the next update() reconciles is terminal
TerminalStatusDue(n) ==
  /\ DATA_SENT_UPDATE_MUTEX[n]
  /\ mNextDataToSend[n] # None
  /\ terminalSentStatus(St(n)) \in {"Fail", "SendSuccess"}

\* C25: the sent-callback is called with SendBroadcast only for a frame with
\* the broadcast link address whose attempt the driver reported as
\* successful; a frame whose final attempt failed is reported as Fail,
\* whatever its link address.
C25_FailReportedAsFail ==
  \A n \in active :
     TerminalStatusDue(n) =>
       /\ reportedSentStatus(St(n)) = "SendBroadcast" =>
            /\ LAST_SENT_STATUS[n] = "SendSuccess"
            /\ mNextDataToSend[n].destAddress = BROADCAST_ADDRESS
       /\ terminalSentStatus(St(n)) = "Fail" =>
            reportedSentStatus(St(n)) = "Fail"

\* the received frames of node n that wait for dispatch
Waiting(n) ==
  RECEIVED_DATA[n]
    \o (IF NEW_DATA_RECEIVED_MUTEX[n] THEN <<NEW_RECEIVED_DATA[n]>> ELSE <<>>)

\* how often frame id of the run has been handed to the callback or waits
\* for it
Copies(n, id) ==
  Cardinality({i \in 1..Len(msgLog[n]) : msgLog[n][i].id = id})
    + Cardinality({i \in 1..Len(Waiting(n)) : Waiting(n)[i].data.id = id})

\* C26: the move of NEW_RECEIVED_DATA into RECEIVED_DATA is atomic for the
\* receive interrupt: whenever the interrupt fires, every frame it has stored
\* is dispatched or waits for dispatch exactly once, and whole (frame k of
\* the run has the payload <<k>>).
C26_IngressMoveAtomic ==
  \A n \in active :
     /\ \A id \in 0..(rxCount - 1) : Copies(n, id) = 1
     /\ \A i \in 1..Len(msgLog[n]) : msgLog[n][i].data = <<msgLog[n][i].id>>
     /\ \A i \in 1..Len(Waiting(n)) :
           Waiting(n)[i].data.data = <<Waiting(n)[i].data.id>>

\* RECEIVED_DATA is a std::queue without a capacity; 16 is the largest
\* capacity the documentation names for any queue of the engine
IngressBound == 16

\* C27: the queue of received frames is bounded: its length never exceeds a
\* fixed bound, also while a send awaits its status and frames keep
\* arriving.
C27_IngressQueueBounded ==
  \A n \in Nodes : Len(RECEIVED_DATA[n]) <= IngressBound

\* the calls of the status callback with SendSuccess for (id, address)
Successes(log, id, address) ==
  Cardinality({i \in 1..Len(log) :
                 log[i] = [id |-> id, destAddress |-> address,
                           status |-> "SendSuccess"]})

\* what update() of node n leads to when no received frame waits and
\* esp_now_send, if called, returns status
WithoutReceivedFor(n, status) ==
  QuackMeshDevice_update([St(n) EXCEPT !.NEW_DATA_RECEIVED_MUTEX = FALSE],
                         status)

\* C28: when update() dispatches an acknowledgement for the node that it has
\* not seen before, and a pending confirmation has the acknowledgement's id
\* and, as destination, its source, that confirmation is erased and the
\* status callback is invoked once with SendSuccess; when there is none, the
\* pending confirmations, the outbound queue and the status callbacks are
\* those of the same update() without the acknowledgement.
C28_AcknowledgementEffect ==
  [][\A n \in active \ Routers :
       LET ack == NextReceived(n).data
           i == FindConfirmation(mMessagesLeftToConfirm[n], ack.id,
                                 ack.srcAddress)
       IN (/\ Dispatched(n)
           /\ Pending(n) = 1
           /\ ack.type = 3
           /\ ack.destAddress = n
           /\ ~isMessageAlreadySeen(St(n), ack))
            => /\ i # 0 =>
                    /\ FindConfirmation(mMessagesLeftToConfirm'[n], ack.id,
                                        ack.srcAddress) = 0
                    /\ Successes(statusLog'[n], ack.id, ack.srcAddress)
                         = Successes(statusLog[n], ack.id, ack.srcAddress) + 1
               /\ i = 0 =>
                    \E status \in DriverResults :
                       /\ mMessagesLeftToConfirm'[n]
                            = WithoutReceivedFor(n, status).mMessagesLeftToConfirm
                       /\ mMessageQueue'[n]
                            = WithoutReceivedFor(n, status).mMessageQueue
                       /\ statusLog'[n]
                            = WithoutReceivedFor(n, status).statusLog]_vars

\* the acknowledgement of B for frame 0 has been dispatched once: the
\* pending confirmation has gone and SendSuccess was reported
C28_Witness ==
  /\ active = {"A"}
  /\ \E i \in 1..Len(mSeenMessages["A"]) :
        /\ mSeenMessages["A"][i].type = "Acknowledgement"
        /\ mSeenMessages["A"][i].srcAddress = "B"
        /\ mSeenMessages["A"][i].id = 0
  /\ Successes(statusLog["A"], 0, "B") = 1
  /\ mMessagesLeftToConfirm["A"] = <<>>
  /\ dupLog["A"] = <<>>

\* the acknowledgement of a confirmed frame, as the outbound queue holds it
AcknowledgementOf(n, message) ==
  [type |-> "Acknowledgement", channel |-> 0,
   message |-> [networkID |-> 0, type |-> 3, id |-> message.id,
                hopCount |-> 3, srcAddress |-> n,
                destAddress |-> message.srcAddress, len |-> 0,
                data |-> <<>>]]

\* C29: when update() dispatches a confirmed frame for the node that it has
\* not seen before, whatever the payload length (0 included), exactly one
\* frame is added to the outbound queue, at its back: an acknowledgement with
\* type 3, the id of the received frame, hop count 3, the node as source, the
\* source of the received frame as destination and len 0; and the on-message
\* callback is invoked once, with type 1 and the payload of the frame.
C29_ConfirmedFrameAcknowledged ==
  [][\A n \in active :
       LET message == NextReceived(n).data
           entry == AcknowledgementOf(n, message)
       IN (/\ Dispatched(n) /\ Pending(n) = 1 /\ message.type = 1
           /\ message.destAddress = n
           /\ ~isMessageAlreadySeen(St(n), message))
            => /\ \/ mMessageQueue'[n] = Append(mMessageQueue[n], entry)
                  \/ /\ mMessageQueue[n] # <<>>
                     /\ mMessageQueue'[n]
                          = Append(Tail(mMessageQueue[n]), entry)
               /\ ackLog'[n] = Append(ackLog[n], entry.message)
               /\ Len(msgLog'[n]) = Len(msgLog[n]) + 1
               /\ LET call == msgLog'[n][Len(msgLog'[n])]
                  IN /\ call.type = 1
                     /\ call.srcAddress = message.srcAddress
                     /\ call.id = message.id
                     /\ call.len = message.len
                     /\ call.data = message.data
                     /\ Len(call.data) = message.len]_vars

\* device A has acknowledged the frame without payload and the frame with
\* the longest payload, and both acknowledgements have left the queue
C29_Witness ==
  /\ active = {"A"}
  /\ Len(ackLog["A"]) = 2
  /\ \E i \in 1..Len(msgLog["A"]) :
        msgLog["A"][i].type = 1 /\ msgLog["A"][i].len = 0
  /\ \E i \in 1..Len(msgLog["A"]) :
        msgLog["A"][i].type = 1 /\ msgLog["A"][i].len = MaxPayload
  /\ mMessageQueue["A"] = <<>>

\* C30: when update() of a router dispatches a frame for another node that it
\* forwards (more than one hop left, not seen before), the entry it adds to
\* the outbound queue has kind Forwarded and channel 0, and its frame equals
\* the received frame in the network identifier, type, id, source,
\* destination, len and payload, with a hop count one less.
C30_ForwardedFrameIdentical ==
  [][\A n \in active \cap Routers :
       LET message == NextReceived(n).data
       IN (/\ Dispatched(n) /\ Pending(n) = 1
           /\ message.destAddress # n
           /\ message.hopCount - 1 # 0
           /\ ~isMessageAlreadySeen(St(n), message))
            => /\ mMessageQueue'[n] # <<>>
               /\ mMessageQueue'[n][Len(mMessageQueue'[n])]
                    = [type |-> "Forwarded", channel |-> 0,
                       message |-> [message EXCEPT !.hopCount = @ - 1]]]_vars

\* the part of C30 without the network identifier: the forwarded frame has
\* the type, id, source, destination, len and payload of the received frame
\* and a hop count one less (FwdSpec)
ForwardedFrameIdenticalButNetworkId ==
  [][\A n \in active \cap Routers :
       LET message == NextReceived(n).data
       IN (/\ Dispatched(n) /\ Pending(n) = 1
           /\ message.destAddress # n
           /\ message.hopCount - 1 # 0
           /\ ~isMessageAlreadySeen(St(n), message))
            => /\ mMessageQueue'[n] # <<>>
               /\ mMessageQueue'[n][Len(mMessageQueue'[n])]
                    = [type |-> "Forwarded", channel |-> 0,
                       message |-> [message EXCEPT !.hopCount = @ - 1,
                                                   !.networkID = 0]]]_vars

\* C31: a call of addOrUpdateRoutingInfo for a destination that already has
\* an entry with no more hops than the new ones leaves the routing table
\* unchanged: the table never grows by an entry whose destination already
\* had an entry with hops less than or equal to its own, so the table holds
\* at most one entry per destination.
C31_KeepsBetterRoute ==
  /\ [](\A n \in Routers :
          \A i, j \in 1..Len(mRoutingTable[n]) :
             mRoutingTable[n][i].destination = mRoutingTable[n][j].destination
               => i = j)
  /\ [][\A n \in Routers :
          Len(mRoutingTable'[n]) > Len(mRoutingTable[n])
            => LET new == mRoutingTable'[n][Len(mRoutingTable'[n])]
               IN ~\E i \in 1..Len(mRoutingTable[n]) :
                     /\ mRoutingTable[n][i].destination = new.destination
                     /\ mRoutingTable[n][i].hops <= new.hops]_vars

\* update() of node n reconciles a terminal send status in this step
Completed(n) == TerminalStatusDue(n) /\ ~DATA_SENT_UPDATE_MUTEX'[n]

\* C32: an Unconfirmed, Forwarded or Acknowledgement entry never causes a
\* call of the status callback, whether its send ended in success or in
\* failure: where no confirmed frame is sent the status callback is never
\* invoked, and the update() that reconciles the terminal status of such an
\* entry pops it from the head of the outbound queue and leaves the pending
\* confirmations alone.
C32_SilentCompletion ==
  /\ [](\A n \in active :
          /\ statusLog[n] = <<>>
          /\ \A i \in 1..Len(mMessageQueue[n]) :
                mMessageQueue[n][i].type # "Confirmed")
  /\ [][\A n \in active :
          Completed(n) =>
            /\ mMessageQueue[n] # <<>>
            /\ Len(mMessageQueue'[n]) >= Len(mMessageQueue[n]) - 1
            /\ SubSeq(mMessageQueue'[n], 1, Len(mMessageQueue[n]) - 1)
                 = Tail(mMessageQueue[n])
            /\ ~mMessageSendingInProgress'[n]
                 \/ mNextDataToSend'[n] # mNextDataToSend[n]
            /\ mMessagesLeftToConfirm'[n] = mMessagesLeftToConfirm[n]
            /\ statusLog'[n] = statusLog[n]]_vars

\* R has queued its own unconfirmed frame, an acknowledgement and a forwarded
\* frame and all three have left the queue; only the acknowledgement went on
\* the air, the sends of the other two failed; the status callback was never
\* invoked
C32_Witness ==
  /\ idid["R"] = 1
  /\ ackLog["R"] # <<>>
  /\ fwdLog["R"] # {}
  /\ mMessageQueue["R"] = <<>>
  /\ ~mMessageSendingInProgress["R"]
  /\ Len(air["B"]) = 1
  /\ air["B"][1].data.type = 3
  /\ statusLog["R"] = <<>>

\* update() of router n has enqueued a frame for forwarding in this step
Forwarded(n) ==
  /\ mMessageQueue'[n] # <<>>
  /\ mMessageQueue'[n][Len(mMessageQueue'[n])].type = "Forwarded"
  /\ \/ Len(mMessageQueue'[n]) > Len(mMessageQueue[n])
     \/ /\ Len(mMessageQueue'[n]) = Len(mMessageQueue[n])
        /\ mMessageQueue'[n] # mMessageQueue[n]

\* C33: forwarding has no loop and comes to an end.  Every forward lowers the
\* hop count by one and needs a hop count of at least 2, so a frame
\* originated with hop count h (here also its id) is only ever transmitted
\* by a router with a hop count from 1 to h - 1, that is after at most
\* h - 1 forwards along a chain; and a router only enqueues a frame for
\* forwarding when its seen-set does not hold the frame, and holds it
\* afterwards (updates are at most 1000 ms apart).
C33_ForwardingLoopFree ==
  /\ [](\A n \in active :
          /\ \A f \in fwdLog[n] :
                f.received >= 2 /\ f.enqueued = f.received - 1
          /\ \A i \in 1..Len(air[n]) :
                air[n][i].srcAddress \in Routers =>
                  /\ air[n][i].data.hopCount >= 1
                  /\ air[n][i].data.hopCount <= air[n][i].data.id - 1
          /\ \A i \in 1..Len(mMessageQueue[n]) :
                /\ mMessageQueue[n][i].message.hopCount >= 1
                /\ mMessageQueue[n][i].message.hopCount
                     <= mMessageQueue[n][i].message.id - 1)
  /\ [][\A n \in active :
          Forwarded(n) =>
            LET message == mMessageQueue'[n][Len(mMessageQueue'[n])].message
            IN /\ ~isMessageAlreadySeen(St(n), message)
               /\ \E i \in 1..Len(mSeenMessages'[n]) :
                     /\ mSeenMessages'[n][i].id = message.id
                     /\ mSeenMessages'[n][i].srcAddress = message.srcAddress
                     /\ mSeenMessages'[n][i].destAddress = message.destAddress
                     /\ mSeenMessages'[n][i].type = SeenType(message.type)
                     /\ mSeenMessages'[n][i].timestamp # 0]_vars

\* the chain B - R - S - R: R has forwarded the frame originated with hop
\* count 3, S has forwarded it with hop count 2, R has received it with hop
\* count 1 and dropped it, and nothing is left to send
C33_Witness ==
  /\ fwdLog["R"] = {[type |-> 0, received |-> 3, enqueued |-> 2]}
  /\ fwdLog["S"] = {[type |-> 0, received |-> 2, enqueued |-> 1]}
  /\ \A n \in {"R", "S"} :
        /\ mMessageQueue[n] = <<>>
        /\ air[n] = <<>>
        /\ Pending(n) = 0
        /\ ~driverBusy[n]
        /\ mNextDataToSend[n] = None

\* the adapter of node n awaits a send status that the driver does not owe:
\* no send is in flight and no status waits for update()
AwaitsInVain(n) ==
  /\ WAITING_FOR_DATA_SENT_MUTEX[n]
  /\ ~DATA_SENT_UPDATE_MUTEX[n]
  /\ ~driverBusy[n]

\* C34: a device that was stopped while a send was staged or awaited its
\* status, and started again, is able to send: on a running device the
\* awaiting-status flag is only set while the driver owes the status or
\* update() has it to reconcile, so the flag and mMessageSendingInProgress
\* do not stay set and the next queued frame reaches the driver.
C34_SendsAgainAfterRestart ==
  \A n \in active : ~AwaitsInVain(n)

\* once the adapter of a running device awaits a status in vain it does so
\* for ever: no frame is handed to the driver and the outbound queue never
\* shrinks (RestartSpec)
AwaitsInVainForEver ==
  [][\A n \in active \cap active' :
       AwaitsInVain(n) =>
         /\ AwaitsInVain(n)'
         /\ mMessageSendingInProgress'[n]
         /\ ~HandedToDriver(n)
         /\ Len(mMessageQueue'[n]) >= Len(mMessageQueue[n])]_vars

\* the ids of the frames handed to the on-message callback of node n,
\* followed by the ids of the frames that wait for dispatch
IdsInOrder(n) ==
  [i \in 1..Len(msgLog[n]) |-> msgLog[n][i].id]
    \o [i \in 1..Len(Waiting(n)) |-> Waiting(n)[i].data.id]

\* C35: every frame of at least 18 bytes that the receive interrupt accepts
\* is dispatched exactly once and in arrival order, also when several frames
\* arrive between two calls of update(): the frames dispatched so far and
\* those waiting are the frames 0, 1, 2, ... of the run, each once.
C35_EveryAcceptedFrameDispatched ==
  \A n \in active : IdsInOrder(n) = [i \in 1..rxCount |-> i - 1]

\* C36: a router never forwards a frame that it originated itself: no entry
\* of kind Forwarded in its outbound queue carries the router's own address
\* as source, also when a neighbour relays the router's frame back to it.
C36_NeverForwardsOwnFrame ==
  \A n \in active \cap Routers :
     \A i \in 1..Len(mMessageQueue[n]) :
        mMessageQueue[n][i].type = "Forwarded"
          => mMessageQueue[n][i].message.srcAddress # n

\* C37: on a running device, whenever update() has returned,
\* mMessageSendingInProgress is set exactly when the adapter holds a frame
\* (staged or handed to the driver); then the outbound queue is not empty
\* and the adapter's frame is the head of the queue in its wire form; and a
\* send status only waits for update() while the adapter holds a frame, so
\* the sent-callback is never invoked on an empty queue.
C37_InProgressMatchesAdapter ==
  \A n \in active :
     /\ mMessageSendingInProgress[n] <=> mNextDataToSend[n] # None
     /\ mNextDataToSend[n] # None =>
          /\ mMessageQueue[n] # <<>>
          /\ mNextDataToSend[n].data
               = Encode(Head(mMessageQueue[n]).message,
                        HeaderSize + Head(mMessageQueue[n]).message.len)
     /\ (WAITING_FOR_DATA_SENT_MUTEX[n] \/ DATA_SENT_UPDATE_MUTEX[n]
          \/ driverBusy[n]) => mNextDataToSend[n] # None

\* A has handed the confirmed frame at the head of its queue to the driver
\* and the frame's status has come back
C37_Witness ==
  /\ active = {"A"}
  /\ mMessageSendingInProgress["A"]
  /\ DATA_SENT_UPDATE_MUTEX["A"]
  /\ LAST_SENT_STATUS["A"] = "SendSuccess"
  /\ Len(mMessageQueue["A"]) = 1
  /\ Head(mMessageQueue["A"]).type = "Confirmed"
  /\ mNextDataToSend["A"].data = Head(mMessageQueue["A"]).message

====
